---------------------------- MODULE Spec2Model ----------------------------
(***************************************************************************)
(* A model of the RingCT-SP23 ring-signature engine:                       *)
(*   - the Bulletproofs inner-product argument (bulletproofs/src/ipa.rs),  *)
(*   - the linear-size ring signature (ringsig/protocol_linear.rs),        *)
(*   - the IPA-compressed ring signature                                   *)
(*     (ringsig/protocol_compressed_modification.rs),                      *)
(*   - the Pedersen vector commitment (commitment/pedersen.rs) and the     *)
(*     vector helpers (toolbox/src/vec.rs) they use.                       *)
(*                                                                         *)
(* Scalars are the prime field F_Q.  A group element is a vector of F_Q    *)
(* coordinates over a basis of independently sampled points: two points    *)
(* are equal iff they are equal as linear combinations of the sampled      *)
(* points, which is the "no known discrete-log relation" reading of the    *)
(* prime-order group.  The Fiat-Shamir transcript is a random oracle that  *)
(* is sampled lazily: the same transcript always gets the same challenge.  *)
(***************************************************************************)
EXTENDS Integers, Sequences, FiniteSets, TLC

VARIABLES
    pc,        \* the position of the running call
    ipa_in,    \* the inputs of the IPA: params, vec_a, vec_b, target_P, n
    ipa_pv,    \* the locals of InnerProductProtocol::prove
    proof,     \* the InnerProductProof handed to the verifier
    ipa_vf,    \* the locals of InnerProductProtocol::verify and its result
    oracle,    \* the random oracle behind ProofTranscript: query |-> challenge
    tamper,    \* what was changed between prove and verify
    ring_par,  \* the ring signature's Parameters: ring size, keys, message
    ring_wit,  \* the signer's Witness and the coins of the run
    ring_pv,   \* the locals of RingSignatureScheme::prove
    ring_sig,  \* the Signature handed to the verifier
    ring_vf,   \* the locals of RingSignatureScheme::verify and its result
    ped,       \* a run of the Pedersen commitment scheme on its own
    shuf,      \* a call of shuffle on its own
    pw         \* a call of generate_powers on its own

ipa_vars == <<ipa_in, ipa_pv, proof, ipa_vf>>

ring_vars == <<ring_par, ring_wit, ring_pv, ring_sig, ring_vf>>

lib_vars == <<ped, shuf, pw>>

vars == <<pc, ipa_vars, oracle, tamper, ring_vars, lib_vars>>

---------------------------------------------------------------------------
(* Bounds of the model. *)

\* n = |vec_G| ranges over 2^0 .. 2^MaxLogN
MaxLogN == 2
\* the seeds of the sampled random streams are 0 .. MaxSeed
MaxSeed == 0

---------------------------------------------------------------------------
(* The scalar field C::ScalarField, scaled down to the prime field F_Q. *)

Q == 5

Scalars == 0 .. (Q - 1)

\* a transcript challenge is a uniform scalar; zero has negligible weight
Challenges == 1 .. (Q - 1)

FAdd(a, b) == (a + b) % Q

FSub(a, b) == (a + Q - b) % Q

FNeg(a) == (Q - a) % Q

FMul(a, b) == (a * b) % Q

\* x.inverse().unwrap(): defined for x # 0
FInv(a) == CHOOSE b \in Scalars : (a * b) % Q = 1

RECURSIVE FPow(_, _)
FPow(a, k) == IF k = 0 THEN 1 ELSE FMul(a, FPow(a, k - 1))

RECURSIVE Pow2(_)
Pow2(k) == IF k = 0 THEN 1 ELSE 2 * Pow2(k - 1)

\* usize::is_power_of_two
IsPowerOfTwo(n) == \E k \in 0 .. n : Pow2(k) = n

\* usize::trailing_zeros, for n >= 1
TrailingZeros(n) == CHOOSE k \in 0 .. n : n % Pow2(k) = 0 /\ (n \div Pow2(k)) % 2 = 1

\* floor(log2 i) = 32 - 1 - (i as u32).leading_zeros(), for i >= 1
FloorLog2(i) == CHOOSE k \in 0 .. i : Pow2(k) <= i /\ i < Pow2(k + 1)

---------------------------------------------------------------------------
(* toolbox/src/vec.rs: the vector helpers. *)

RECURSIVE SumSeq(_)
SumSeq(s) == IF s = <<>> THEN 0 ELSE FAdd(Head(s), SumSeq(Tail(s)))

scalar_product(vec_a, c) == [i \in 1 .. Len(vec_a) |-> FMul(vec_a[i], c)]

\* asserts |vec_a| = |vec_b|; every call of the model passes equal lengths
inner_product(vec_a, vec_b) ==
    SumSeq([i \in 1 .. Len(vec_a) |-> FMul(vec_a[i], vec_b[i])])

vec_add(vec_a, vec_b) == [i \in 1 .. Len(vec_a) |-> FAdd(vec_a[i], vec_b[i])]

hadamard_product(vec_a, vec_b) ==
    [i \in 1 .. Len(vec_a) |-> FMul(vec_a[i], vec_b[i])]

\* vec_split(v, n) = (v[0..n], v[n..])
SplitL(v, n) == SubSeq(v, 1, n)

SplitR(v, n) == SubSeq(v, n + 1, Len(v))

\* iter::successors(Some(first), |&current_power| Some(current_power * y)).take(n)
RECURSIVE Successors(_, _, _)
Successors(first, y, n) ==
    IF n = 0 THEN <<>>
    ELSE <<first>> \o Successors(FMul(first, y), y, n - 1)

\* the powers started at y^0
PowersFromOne(y, n) == Successors(1, y, n)

\* generate_powers(y, n): the successors of y, n of them
generate_powers(y, n) == Successors(y, y, n)

Const(n, c) == [i \in 1 .. n |-> c]

Reverse(s) == [i \in 1 .. Len(s) |-> s[Len(s) + 1 - i]]

---------------------------------------------------------------------------
(* The group C: points as coordinate vectors over the sampled basis. *)

PZero(d) == [i \in 1 .. d |-> 0]

\* the k-th independently sampled point of a d-dimensional basis
Basis(d, k) == [i \in 1 .. d |-> IF i = k THEN 1 ELSE 0]

PAdd(P, R) == [i \in 1 .. Len(P) |-> FAdd(P[i], R[i])]

PSub(P, R) == [i \in 1 .. Len(P) |-> FSub(P[i], R[i])]

PMul(P, s) == [i \in 1 .. Len(P) |-> FMul(P[i], s)]

\* C::msm(bases, scalars) with |bases| = |scalars|, in a d-dimensional group
RECURSIVE MsmFrom(_, _, _, _)
MsmFrom(bases, scalars, k, d) ==
    IF k > Len(bases) THEN PZero(d)
    ELSE PAdd(PMul(bases[k], scalars[k]), MsmFrom(bases, scalars, k + 1, d))

Msm(bases, scalars, d) == MsmFrom(bases, scalars, 1, d)

\* CanonicalSerialize of a list of points: the coordinates in order
RECURSIVE SerPoints(_)
SerPoints(ps) == IF ps = <<>> THEN <<>> ELSE Head(ps) \o SerPoints(Tail(ps))

---------------------------------------------------------------------------
(* ProofTranscript (toolbox::sigma::transcript): labelled absorptions and  *)
(* challenges.  A transcript is the sequence of what it absorbed.          *)

TranscriptNew(label) == << [label |-> label, data |-> <<>>] >>

Absorb(tr, label, data) == Append(tr, [label |-> label, data |-> data])

\* the oracle query get_and_append_challenge(label) makes on transcript tr
ChallengeQuery(tr, label) == Absorb(tr, label, <<>>)

\* x is the answer the oracle gives to query q: the recorded one if asked before
OracleAnswers(q, x) == x \in Challenges /\ (q \in DOMAIN oracle => oracle[q] = x)

OracleWith(q, x) == [k \in DOMAIN oracle \cup {q} |-> IF k = q THEN x ELSE oracle[k]]

\* the same for an oracle o that has answered more queries than `oracle` has
AnswersIn(o, q, x) == x \in Challenges /\ (q \in DOMAIN o => o[q] = x)

Answered(o, q, x) == [k \in DOMAIN o \cup {q} |-> IF k = q THEN x ELSE o[k]]

---------------------------------------------------------------------------
(* bulletproofs/src/ipa.rs: InnerProductProtocol::prove.                   *)
(* st holds the prover's locals; h is the halved length n of the round.    *)

\* the length checks without the power-of-two check
ParamsOfAnyLength(params, vec_a, vec_b) ==
    LET n == Len(params.vec_G) IN
    /\ Len(params.vec_H) = n
    /\ Len(vec_a) = n
    /\ Len(vec_b) = n
    /\ Len(params.factors_G) = n
    /\ Len(params.factors_H) = n

\* lines 36-49: the length checks and the power-of-two check
IPAProveParamsOk(params, vec_a, vec_b) ==
    LET n == Len(params.vec_G) IN
    /\ Len(params.vec_H) = n
    /\ Len(vec_a) = n
    /\ Len(vec_b) = n
    /\ Len(params.factors_G) = n
    /\ Len(params.factors_H) = n
    /\ IsPowerOfTwo(n)

\* a transcript that carries on from the caller's instead of starting anew
TranscriptOfCaller(n) ==
    Absorb(Absorb(TranscriptNew("RingSignature"), "caller", ipa_in.target_P),
           "IPAsize", <<n % Q>>)

\* line 51: the transcript after absorbing the size
IPATranscriptInit(n) == Absorb(TranscriptNew("RingSignature"), "IPAsize", <<n % Q>>)

\* lines 73-88: L of the base step, with the weights factors_G[n..2n], factors_H[0..n]
BaseL(params, st, h, d) ==
    LET a_L == SplitL(st.vec_a, h)
        b_R == SplitR(st.vec_b, h)
        c_L == inner_product(a_L, b_R)
        exp == hadamard_product(a_L, SubSeq(params.factors_G, h + 1, 2 * h))
               \o hadamard_product(b_R, SubSeq(params.factors_H, 1, h))
               \o <<c_L>>
        base == SplitR(st.vec_G, h) \o SplitL(st.vec_H, h) \o <<params.u>>
    IN Msm(base, exp, d)

\* lines 74-102: R of the base step, with the weights factors_G[0..n], factors_H[n..2n]
BaseR(params, st, h, d) ==
    LET a_R == SplitR(st.vec_a, h)
        b_L == SplitL(st.vec_b, h)
        c_R == inner_product(a_R, b_L)
        exp == hadamard_product(a_R, SubSeq(params.factors_G, 1, h))
               \o hadamard_product(b_L, SubSeq(params.factors_H, h + 1, 2 * h))
               \o <<c_R>>
        base == SplitL(st.vec_G, h) \o SplitR(st.vec_H, h) \o <<params.u>>
    IN Msm(base, exp, d)

\* the fold of a with the challenge and its inverse exchanged
FoldASwapped(st, h, x) ==
    vec_add(scalar_product(SplitL(st.vec_a, h), FInv(x)),
            scalar_product(SplitR(st.vec_a, h), x))

\* lines 122-123 and 186-187: a <- x a_L + x^-1 a_R, b <- x^-1 b_L + x b_R
FoldA(st, h, x) ==
    vec_add(scalar_product(SplitL(st.vec_a, h), x),
            scalar_product(SplitR(st.vec_a, h), FInv(x)))

\* the fold of b with the challenge and its inverse exchanged
FoldBSwapped(st, h, x) ==
    vec_add(scalar_product(SplitL(st.vec_b, h), x),
            scalar_product(SplitR(st.vec_b, h), FInv(x)))

\* lines 123 and 187: b <- x^-1 b_L + x b_R
FoldB(st, h, x) ==
    vec_add(scalar_product(SplitL(st.vec_b, h), FInv(x)),
            scalar_product(SplitR(st.vec_b, h), x))

\* lines 126-131: the generators of the base step fold with the weights
BaseFoldG(params, st, h, x, d) ==
    [i \in 1 .. h |->
        Msm(<<st.vec_G[i], st.vec_G[h + i]>>,
            <<FMul(FInv(x), params.factors_G[i]), FMul(x, params.factors_G[h + i])>>, d)]

BaseFoldH(params, st, h, x, d) ==
    [i \in 1 .. h |->
        Msm(<<st.vec_H[i], st.vec_H[h + i]>>,
            <<FMul(x, params.factors_H[i]), FMul(FInv(x), params.factors_H[h + i])>>, d)]

\* lines 147-158: L of a later round
LoopL(params, st, h, d) ==
    LET a_L == SplitL(st.vec_a, h)
        b_R == SplitR(st.vec_b, h)
        c_L == inner_product(a_L, b_R)
        exp == a_L \o b_R \o <<c_L>>
        base == SplitR(st.vec_G, h) \o SplitL(st.vec_H, h) \o <<params.u>>
    IN Msm(base, exp, d)

\* lines 148-169: R of a later round
LoopR(params, st, h, d) ==
    LET a_R == SplitR(st.vec_a, h)
        b_L == SplitL(st.vec_b, h)
        c_R == inner_product(a_R, b_L)
        exp == a_R \o b_L \o <<c_R>>
        base == SplitL(st.vec_G, h) \o SplitR(st.vec_H, h) \o <<params.u>>
    IN Msm(base, exp, d)

\* lines 190-195: the generators of a later round fold without weights
LoopFoldG(st, h, x, d) ==
    [i \in 1 .. h |-> Msm(<<st.vec_G[i], st.vec_G[h + i]>>, <<FInv(x), x>>, d)]

LoopFoldH(st, h, x, d) ==
    [i \in 1 .. h |-> Msm(<<st.vec_H[i], st.vec_H[h + i]>>, <<x, FInv(x)>>, d)]

\* lines 104-111 and 171-177: record L, R, absorb them, derive and record x
RoundTranscript(tr, L, R) == Absorb(tr, "commitments L, R", L \o R)

\* a round that folds the vectors and leaves n as it was
AfterRoundSameN(st, h, L, R, x, a2, b2, G2, H2) ==
    [st EXCEPT !.vec_a = a2, !.vec_b = b2, !.vec_G = G2, !.vec_H = H2,
               !.vec_L = Append(st.vec_L, L),
               !.vec_R = Append(st.vec_R, R),
               !.challenges = Append(st.challenges, x),
               !.transcript = Absorb(RoundTranscript(st.transcript, L, R),
                                     "challenge", <<x>>)]

\* the prover's locals after a round with commitments L, R, challenge x and folds
AfterRound(st, h, L, R, x, a2, b2, G2, H2) ==
    [st EXCEPT !.n = h,
               !.vec_a = a2, !.vec_b = b2, !.vec_G = G2, !.vec_H = H2,
               !.vec_L = Append(st.vec_L, L),
               !.vec_R = Append(st.vec_R, R),
               !.challenges = Append(st.challenges, x),
               !.transcript = Absorb(RoundTranscript(st.transcript, L, R),
                                     "challenge", <<x>>)]

NoProof == [vec_L |-> <<>>, vec_R |-> <<>>, a |-> 0, b |-> 0, challenges |-> <<>>]

NoProver ==
    [n |-> 0, vec_a |-> <<>>, vec_b |-> <<>>, vec_G |-> <<>>, vec_H |-> <<>>,
     vec_L |-> <<>>, vec_R |-> <<>>, challenges |-> <<>>, transcript |-> <<>>,
     rounds |-> 0, result |-> "none"]

NoVerifier ==
    [i |-> 0, transcript |-> <<>>, challenges |-> <<>>, result |-> "none"]

NoTamper == [kind |-> "none", idx |-> 0]

\* no ring signature is running
NoRing == [run |-> "none"]

\* lines 29-51: initialisation and parameter checks
IPAProveStart ==
    /\ pc = "ipa_prove"
    /\ LET params == ipa_in.params
           n == Len(params.vec_G)
       IN IF IPAProveParamsOk(params, ipa_in.vec_a, ipa_in.vec_b)
          THEN /\ ipa_pv' = [NoProver EXCEPT
                               !.n = n,
                               !.vec_a = ipa_in.vec_a, !.vec_b = ipa_in.vec_b,
                               !.vec_G = params.vec_G, !.vec_H = params.vec_H,
                               !.transcript = IPATranscriptInit(n)]
               /\ pc' = "ipa_base"
          ELSE /\ ipa_pv' = [NoProver EXCEPT !.result = "InvalidParameters"]
               /\ pc' = "ipa_failed"
    /\ UNCHANGED <<lib_vars, ipa_in, proof, ipa_vf, oracle, tamper, ring_vars>>

\* lines 62-137: the base step, taken when n # 1
IPAProveBase ==
    /\ pc = "ipa_base"
    /\ IF ipa_pv.n = 1
       THEN /\ pc' = "ipa_loop"
            /\ UNCHANGED <<ipa_pv, oracle>>
       ELSE LET h == ipa_pv.n \div 2
                d == ipa_in.d
                L == BaseL(ipa_in.params, ipa_pv, h, d)
                R == BaseR(ipa_in.params, ipa_pv, h, d)
                q == ChallengeQuery(RoundTranscript(ipa_pv.transcript, L, R), "challenge")
            IN \E x \in Challenges :
                 /\ OracleAnswers(q, x)
                 /\ oracle' = OracleWith(q, x)
                 /\ ipa_pv' = [AfterRound(ipa_pv, h, L, R, x,
                                   FoldA(ipa_pv, h, x), FoldB(ipa_pv, h, x),
                                   BaseFoldG(ipa_in.params, ipa_pv, h, x, d),
                                   BaseFoldH(ipa_in.params, ipa_pv, h, x, d))
                               EXCEPT !.rounds = 1]
                 /\ pc' = "ipa_loop"
    /\ UNCHANGED <<lib_vars, ipa_in, proof, ipa_vf, tamper, ring_vars>>

\* lines 140-200: one iteration of the loop step
IPAProveLoop ==
    /\ pc = "ipa_loop"
    /\ ipa_pv.n # 1
    /\ LET h == ipa_pv.n \div 2
           d == ipa_in.d
           L == LoopL(ipa_in.params, ipa_pv, h, d)
           R == LoopR(ipa_in.params, ipa_pv, h, d)
           q == ChallengeQuery(RoundTranscript(ipa_pv.transcript, L, R), "challenge")
       IN \E x \in Challenges :
            /\ OracleAnswers(q, x)
            /\ oracle' = OracleWith(q, x)
            /\ ipa_pv' = [AfterRound(ipa_pv, h, L, R, x,
                              FoldA(ipa_pv, h, x), FoldB(ipa_pv, h, x),
                              LoopFoldG(ipa_pv, h, x, d), LoopFoldH(ipa_pv, h, x, d))
                          EXCEPT !.rounds = ipa_pv.rounds + 1]
    /\ UNCHANGED <<lib_vars, pc, ipa_in, proof, ipa_vf, tamper, ring_vars>>

\* lines 203-209: the proof returned when the loop ends
IPAProofOf(st) ==
    [vec_L |-> st.vec_L, vec_R |-> st.vec_R,
     a |-> st.vec_a[1], b |-> st.vec_b[1],
     challenges |-> st.challenges]

IPAProveReturn ==
    /\ pc = "ipa_loop"
    /\ ipa_pv.n = 1
    /\ proof' = IPAProofOf(ipa_pv)
    /\ ipa_pv' = [ipa_pv EXCEPT !.result = "Ok"]
    /\ pc' = "ipa_proved"
    /\ UNCHANGED <<lib_vars, ipa_in, ipa_vf, oracle, tamper, ring_vars>>

---------------------------------------------------------------------------
(* bulletproofs/src/ipa.rs: InnerProductProtocol::verify. *)

\* lines 221-236: the checks made before the transcript is touched
IPAVerifyPrecheck(n, params, pf) ==
    LET log_n == Len(pf.vec_L) IN
    IF Len(params.vec_G) # n THEN "panic"
    ELSE IF log_n >= 32 THEN "InvalidParameters"
    ELSE IF n # Pow2(log_n) THEN "InvalidProof"
    ELSE "Ok"

\* line 253: the re-derived challenge is compared with the one the proof carries
IPAChallengeMatches(x, carried) == x = carried

\* lines 263-270: the scalar "boxes", vec_box[i] for i = 0 .. n-1
RECURSIVE BoxAt(_, _, _, _)
BoxAt(i, log_n, all_inv, challenges_sq) ==
    IF i = 0 THEN all_inv
    ELSE LET log_i == FloorLog2(i)
             k == Pow2(log_i)
         IN FMul(BoxAt(i - k, log_n, all_inv, challenges_sq),
                 challenges_sq[log_n - 1 - log_i + 1])

\* lines 244-252: all_inv, the product of the inverses of the challenges
RECURSIVE AllInv(_)
AllInv(challenges) ==
    IF challenges = <<>> THEN 1
    ELSE FMul(FInv(Head(challenges)), AllInv(Tail(challenges)))

\* the boxes started from 1 instead of all_inv
VecBoxFromOne(n, challenges) ==
    LET log_n == Len(challenges)
        sq == [j \in 1 .. log_n |-> FMul(challenges[j], challenges[j])]
    IN [i \in 1 .. n |-> BoxAt(i - 1, log_n, 1, sq)]

\* lines 263-272: vec_box
VecBox(n, challenges) ==
    LET log_n == Len(challenges)
        sq == [j \in 1 .. log_n |-> FMul(challenges[j], challenges[j])]
    IN [i \in 1 .. n |-> BoxAt(i - 1, log_n, AllInv(challenges), sq)]

\* the recomputation of P without the weights factors_G, factors_H
ExpectedPUnweighted(n, params, pf, challenges, d) ==
    LET vec_box == VecBox(n, challenges)
        neg_sq == [j \in 1 .. Len(challenges) |->
                      FNeg(FMul(challenges[j], challenges[j]))]
        neg_inv_sq == [j \in 1 .. Len(challenges) |->
                      FNeg(FMul(FInv(challenges[j]), FInv(challenges[j])))]
        exp == <<FMul(pf.a, pf.b)>> \o scalar_product(vec_box, pf.a)
               \o scalar_product(Reverse(vec_box), pf.b) \o neg_sq \o neg_inv_sq
        base == <<params.u>> \o params.vec_G \o params.vec_H \o pf.vec_L \o pf.vec_R
    IN Msm(base, exp, d)

\* lines 301-325: the single multi-exponentiation that recomputes P
IPAExpectedP(n, params, pf, challenges, d) ==
    LET vec_box == VecBox(n, challenges)
        g_a_box == scalar_product(hadamard_product(vec_box, params.factors_G), pf.a)
        h_b_box == scalar_product(hadamard_product(Reverse(vec_box), params.factors_H), pf.b)
        neg_sq == [j \in 1 .. Len(challenges) |->
                      FNeg(FMul(challenges[j], challenges[j]))]
        neg_inv_sq == [j \in 1 .. Len(challenges) |->
                      FNeg(FMul(FInv(challenges[j]), FInv(challenges[j])))]
        exp == <<FMul(pf.a, pf.b)>> \o g_a_box \o h_b_box \o neg_sq \o neg_inv_sq
        base == <<params.u>> \o params.vec_G \o params.vec_H \o pf.vec_L \o pf.vec_R
    IN Msm(base, exp, d)

\* a verifier that skips the final comparison
FinalUnchecked(expected_P, target_P) == TRUE

\* lines 328-333: the final comparison
IPAFinalCheck(expected_P, target_P) == expected_P = target_P

\* lines 219-238
IPAVerifyStart ==
    /\ pc = "ipa_verify"
    /\ LET pre == IPAVerifyPrecheck(ipa_in.n, ipa_in.params, proof) IN
       IF pre = "Ok"
       THEN /\ ipa_vf' = [NoVerifier EXCEPT !.transcript = IPATranscriptInit(ipa_in.n)]
            /\ pc' = "ipa_vround"
       ELSE /\ ipa_vf' = [NoVerifier EXCEPT !.result = pre]
            /\ pc' = "ipa_verified"
    /\ UNCHANGED <<lib_vars, ipa_in, ipa_pv, proof, oracle, tamper, ring_vars>>

\* lines 245-256: one iteration of the challenge loop
IPAVerifyRound ==
    /\ pc = "ipa_vround"
    /\ ipa_vf.i < Len(proof.vec_L)
    /\ LET i == ipa_vf.i + 1 IN
       IF i > Len(proof.vec_R)
       THEN \* proof.vec_R[i] is out of bounds
            /\ ipa_vf' = [ipa_vf EXCEPT !.result = "panic"]
            /\ pc' = "ipa_verified"
            /\ UNCHANGED oracle
       ELSE LET tr == RoundTranscript(ipa_vf.transcript, proof.vec_L[i], proof.vec_R[i])
                q == ChallengeQuery(tr, "challenge")
            IN \E x \in Challenges :
                 /\ OracleAnswers(q, x)
                 /\ oracle' = OracleWith(q, x)
                 /\ IF i > Len(proof.challenges)
                    THEN \* proof.challenges[i] is out of bounds
                         /\ ipa_vf' = [ipa_vf EXCEPT !.result = "panic"]
                         /\ pc' = "ipa_verified"
                    ELSE IF IPAChallengeMatches(x, proof.challenges[i])
                    THEN /\ ipa_vf' = [ipa_vf EXCEPT
                                          !.i = i,
                                          !.challenges = Append(ipa_vf.challenges, x),
                                          !.transcript = Absorb(tr, "challenge", <<x>>)]
                         /\ pc' = "ipa_vround"
                    ELSE /\ ipa_vf' = [ipa_vf EXCEPT
                                          !.i = i,
                                          !.challenges = Append(ipa_vf.challenges, x),
                                          !.result = "InvalidProof"]
                         /\ pc' = "ipa_verified"
    /\ UNCHANGED <<lib_vars, ipa_in, ipa_pv, proof, tamper, ring_vars>>

\* lines 263-333: the box expansion and the final check
IPAVerifyFinal ==
    /\ pc = "ipa_vround"
    /\ ipa_vf.i = Len(proof.vec_L)
    /\ LET n == ipa_in.n
           params == ipa_in.params
       IN IF \/ Len(params.factors_G) # n \/ Len(params.factors_H) # n
             \/ Len(params.vec_H) # n \/ Len(proof.vec_R) # Len(proof.vec_L)
          THEN \* hadamard_product asserts equal lengths; msm(..).unwrap() needs them
               ipa_vf' = [ipa_vf EXCEPT !.result = "panic"]
          ELSE LET expected_P == IPAExpectedP(n, params, proof, ipa_vf.challenges, ipa_in.d)
               IN ipa_vf' = [ipa_vf EXCEPT !.result =
                               IF IPAFinalCheck(expected_P, ipa_in.target_P)
                               THEN "Ok" ELSE "InvalidProof"]
    /\ pc' = "ipa_verified"
    /\ UNCHANGED <<lib_vars, ipa_in, ipa_pv, proof, oracle, tamper, ring_vars>>

---------------------------------------------------------------------------
(* The inputs of the stand-alone IPA runs (bulletproofs/src/ipa.rs,        *)
(* test_ipa) and what the soundness scenarios change in a proof.           *)

\* the k-th scalar C::ScalarField::rand(rng) draws from the stream of a seed
Draw(seed, k) == ((seed + 2) * k * k + (seed + 1) * k + seed) % Q

Stream(seed, off, n) == [i \in 1 .. n |-> Draw(seed, off + i)]

\* convert(&[1, 2, 3, ..]) of test_ipa
Ramp(n) == [i \in 1 .. n |-> i % Q]

IPASizes == {Pow2(k) : k \in 0 .. MaxLogN}

\* the generators: sampled one by one, or vec![Affine::rand(rng); n] as in test_ipa
IPAGens(kind, n) ==
    LET d == 2 * n + 1 IN
    IF kind = "independent"
    THEN [vec_G |-> [i \in 1 .. n |-> Basis(d, i)],
          vec_H |-> [i \in 1 .. n |-> Basis(d, n + i)],
          u |-> Basis(d, 2 * n + 1)]
    ELSE [vec_G |-> [i \in 1 .. n |-> Basis(d, 1)],
          vec_H |-> [i \in 1 .. n |-> Basis(d, 2)],
          u |-> Basis(d, 3)]

\* lines 353-354 of test_ipa: factors 1, 2, 3, .. for G and 1, 1, 1, .. for H
TestWeights(n) == [fG |-> Ramp(n), fH |-> Const(n, 1)]

\* lines 349-350 of test_ipa: a = 1, 2, 3, .. and b = 1, 1, 1, ..
TestVectors(n) == [a |-> Ramp(n), b |-> Const(n, 1)]

SampledVectors(n) == { [a |-> Stream(s, 0, n), b |-> Stream(s, n, n)] : s \in 0 .. MaxSeed }

\* the runs of the argument: generators, weights, vectors, and whether the
\* verifier's P is the P of the vectors (off = 0) or another point
IPARuns(n) ==
    { [kind |-> "independent", w |-> TestWeights(n), v |-> v, off |-> 0] :
        v \in {TestVectors(n)} \cup SampledVectors(n) }
    \cup { [kind |-> "independent", w |-> [fG |-> Const(n, 1), fH |-> Const(n, 1)],
             v |-> v, off |-> 0] : v \in SampledVectors(n) }
    \cup { [kind |-> "independent", w |-> [fG |-> Const(n, 0), fH |-> Ramp(n)],
             v |-> v, off |-> 0] :
               v \in {TestVectors(n), [a |-> Stream(0, 0, n), b |-> Const(n, 0)]} }
    \cup { [kind |-> "independent", w |-> [fG |-> Ramp(n), fH |-> Const(n, 0)],
             v |-> [a |-> Const(n, 0), b |-> Ramp(n)], off |-> 0] }
    \cup { [kind |-> "repeated", w |-> TestWeights(n), v |-> v, off |-> 0] :
               v \in {TestVectors(n)} \cup SampledVectors(n) }
    \cup { [kind |-> "independent", w |-> TestWeights(n), v |-> TestVectors(n), off |-> 1] }

\* test_ipa lines 368-376: P computed from the uncompressed vectors
HonestP(params, vec_a, vec_b, d) ==
    PAdd(Msm(params.vec_G \o params.vec_H,
             hadamard_product(vec_a, params.factors_G)
             \o hadamard_product(vec_b, params.factors_H), d),
         PMul(params.u, inner_product(vec_a, vec_b)))

\* every generator is one of the sampled points, and no two are the same one
IndependentGens(params) ==
    LET gens == params.vec_G \o params.vec_H \o <<params.u>>
        d == Len(params.u)
    IN /\ \A i \in 1 .. Len(gens) : \E k \in 1 .. d : gens[i] = Basis(d, k)
       /\ \A i, j \in 1 .. Len(gens) : i # j => gens[i] # gens[j]

\* the inputs of test_ipa for a size n, any n >= 0
IPATestInput(n) ==
    LET g == IPAGens("independent", n)
        d == 2 * n + 1
        params == [factors_G |-> TestWeights(n).fG, factors_H |-> TestWeights(n).fH,
                   u |-> g.u, vec_G |-> g.vec_G, vec_H |-> g.vec_H]
    IN [n |-> n, d |-> d, params |-> params,
        vec_a |-> TestVectors(n).a, vec_b |-> TestVectors(n).b,
        target_P |-> HonestP(params, TestVectors(n).a, TestVectors(n).b, d)]

\* a vector without its last entry
DropLast(v) == SubSeq(v, 1, Len(v) - 1)

\* inputs prove must refuse: one of the vectors one entry short, or a size
\* that is no power of two (0, 3)
IPAMalformedInputs ==
    LET t == IPATestInput(2) IN
    { [t EXCEPT !.params.vec_H = DropLast(@)],
      [t EXCEPT !.vec_a = DropLast(@)],
      [t EXCEPT !.vec_b = DropLast(@)],
      [t EXCEPT !.params.factors_G = DropLast(@)],
      [t EXCEPT !.params.factors_H = DropLast(@)],
      IPATestInput(0),
      IPATestInput(3) }

InitIPA ==
    /\ pc = "ipa_prove"
    /\ \/ \E n \in IPASizes :
          \E run \in IPARuns(n) :
            LET g == IPAGens(run.kind, n)
                w == run.w
                v == run.v
                off == run.off
                d == 2 * n + 1
                params == [factors_G |-> w.fG, factors_H |-> w.fH,
                           u |-> g.u, vec_G |-> g.vec_G, vec_H |-> g.vec_H]
            IN ipa_in = [n |-> n, d |-> d, params |-> params,
                         vec_a |-> v.a, vec_b |-> v.b,
                         target_P |-> PAdd(HonestP(params, v.a, v.b, d), PMul(g.u, off))]
       \/ ipa_in \in IPAMalformedInputs
    /\ ipa_pv = NoProver
    /\ proof = NoProof
    /\ ipa_vf = NoVerifier
    /\ oracle = << >>
    /\ tamper = NoTamper
    /\ ring_par = NoRing
    /\ ring_wit = NoRing
    /\ ring_pv = NoRing
    /\ ring_sig = NoRing
    /\ ring_vf = NoRing
    /\ ped = NoRing
    /\ shuf = NoRing
    /\ pw = NoRing

\* test_ipa line 377: the proof goes to the verifier
IPATestVerify ==
    /\ pc = "ipa_proved"
    /\ pc' = "ipa_verify"
    /\ UNCHANGED <<lib_vars, ipa_in, ipa_pv, proof, ipa_vf, oracle, tamper, ring_vars>>

\* the point a tampered L_j or R_j is moved by
TamperDelta == PAdd(ipa_in.params.u, ipa_in.params.vec_G[1])

\* an accepted proof is changed in one place and verified again: a + 1,
\* another b, another L_j or R_j, another carried challenge (its negative,
\* which has the same square, or its double), or one more carried challenge
TamperedProofs ==
    { [kind |-> "a", idx |-> 0, pf |-> [proof EXCEPT !.a = FAdd(proof.a, 1)]] }
    \cup { [kind |-> "b", idx |-> 0, pf |-> [proof EXCEPT !.b = FAdd(proof.b, e)]] :
             e \in {1, 2} }
    \cup { [kind |-> "L", idx |-> j, pf |-> [proof EXCEPT !.vec_L[j] = PAdd(@, TamperDelta)]] :
             j \in 1 .. Len(proof.vec_L) }
    \cup { [kind |-> "R", idx |-> j, pf |-> [proof EXCEPT !.vec_R[j] = PAdd(@, TamperDelta)]] :
             j \in 1 .. Len(proof.vec_R) }
    \cup { [kind |-> "challenge", idx |-> j,
             pf |-> [proof EXCEPT !.challenges[j] = FMul(@, e)]] :
               j \in 1 .. Len(proof.challenges), e \in {FNeg(1), 2} }
    \cup { [kind |-> "extra challenge", idx |-> Len(proof.challenges) + 1,
             pf |-> [proof EXCEPT !.challenges = Append(@, 1)]] }

IPATamper ==
    /\ pc = "ipa_verified"
    /\ tamper.kind = "none"
    /\ ipa_vf.result = "Ok"
    /\ \E t \in TamperedProofs :
         /\ proof' = t.pf
         /\ tamper' = [kind |-> t.kind, idx |-> t.idx]
    /\ ipa_vf' = NoVerifier
    /\ pc' = "ipa_verify"
    /\ UNCHANGED <<lib_vars, ipa_in, ipa_pv, oracle, ring_vars>>

\* calls of verify that must be refused with an error: after the test's
\* proof was accepted, one length is changed.  log_n is |proof.vec_L|.
IPAMalformedCalls ==
    LET log_n == Len(proof.vec_L)
        P == ipa_in.params.u
    IN { [kind |-> "vec_G length", inp |-> [ipa_in EXCEPT !.params.vec_G = DropLast(@)],
          pf |-> proof],
         [kind |-> "vec_H length", inp |-> [ipa_in EXCEPT !.params.vec_H = DropLast(@)],
          pf |-> proof],
         [kind |-> "factors_G length",
          inp |-> [ipa_in EXCEPT !.params.factors_G = DropLast(@)], pf |-> proof],
         [kind |-> "factors_H length",
          inp |-> [ipa_in EXCEPT !.params.factors_H = DropLast(@)], pf |-> proof],
         [kind |-> "vec_R longer", inp |-> ipa_in,
          pf |-> [proof EXCEPT !.vec_R = Append(@, P)]],
         [kind |-> "n", inp |-> ipa_in,
          pf |-> [proof EXCEPT !.vec_L = Append(@, P), !.vec_R = Append(@, P),
                               !.challenges = Append(@, 1)]],
         [kind |-> "log_n", inp |-> ipa_in,
          pf |-> [proof EXCEPT !.vec_L = Const(32, P), !.vec_R = Const(32, P),
                               !.challenges = Const(32, 1)]] }
    \cup (IF log_n = 0 THEN {}
          ELSE { [kind |-> "vec_R shorter", inp |-> ipa_in,
                  pf |-> [proof EXCEPT !.vec_R = DropLast(@)]],
                 [kind |-> "challenges shorter", inp |-> ipa_in,
                  pf |-> [proof EXCEPT !.challenges = DropLast(@)]] })

\* the kinds of IPAMalformedCalls
MalformedKinds ==
    {"vec_G length", "vec_H length", "factors_G length", "factors_H length",
     "vec_R longer", "vec_R shorter", "challenges shorter", "n", "log_n"}

IPAMalformedVerify ==
    /\ pc = "ipa_verified"
    /\ tamper.kind = "none"
    /\ ipa_vf.result = "Ok"
    /\ \E n \in IPASizes : ipa_in = IPATestInput(n)
    /\ \E t \in IPAMalformedCalls :
         /\ proof' = t.pf
         /\ ipa_in' = t.inp
         /\ tamper' = [kind |-> t.kind, idx |-> 0]
    /\ ipa_vf' = NoVerifier
    /\ pc' = "ipa_verify"
    /\ UNCHANGED <<lib_vars, ipa_pv, oracle, ring_vars>>

NextIPA ==
    \/ IPAMalformedVerify
    \/ IPAProveStart
    \/ IPAProveBase
    \/ IPAProveLoop
    \/ IPAProveReturn
    \/ IPATestVerify
    \/ IPAVerifyStart
    \/ IPAVerifyRound
    \/ IPAVerifyFinal
    \/ IPATamper

SpecIPA == InitIPA /\ [][NextIPA]_vars

\* a call of prove on its own
NextIPAProve ==
    \/ IPAProveStart
    \/ IPAProveBase
    \/ IPAProveLoop
    \/ IPAProveReturn

\* every run of prove, without the verifier
SpecIPAProve == InitIPA /\ [][NextIPAProve]_vars

\* the calls of prove in test_ipa, with generators sampled one by one or
\* cloned, and the calls prove must refuse
InitIPAProve ==
    /\ InitIPA
    /\ \/ ipa_in \in IPAMalformedInputs
       \/ \E n \in IPASizes, kind \in {"independent", "repeated"} :
            /\ ipa_in.params.vec_G = IPAGens(kind, n).vec_G
            /\ ipa_in.params.factors_G = TestWeights(n).fG
            /\ ipa_in.params.factors_H = TestWeights(n).fH
            /\ ipa_in.vec_a = TestVectors(n).a
            /\ ipa_in.vec_b = TestVectors(n).b
            /\ ipa_in.target_P = HonestP(ipa_in.params, ipa_in.vec_a, ipa_in.vec_b, ipa_in.d)

\* prove is sequential code: once called it runs on until it returns
SpecIPALive ==
    /\ InitIPAProve
    /\ [][NextIPAProve]_vars
    /\ WF_vars(NextIPAProve)

---------------------------------------------------------------------------
(* The group of the ring signatures.  Its sampled points: the curve        *)
(* generator, the point each Pedersen setup samples for its vector (one    *)
(* point, cloned to the vector's length), the point the decoy keys are     *)
(* cloned from, and a point from outside the ring.                         *)

RingDim == 8

G_curve == Basis(RingDim, 1)

G_vec(k) == Basis(RingDim, 1 + k)

G_decoy == Basis(RingDim, 7)

G_outside == Basis(RingDim, 8)

\* a sampled scalar; zero has negligible weight and is not drawn for a generator
NonZero(s) == IF s = 0 THEN 1 ELSE s

---------------------------------------------------------------------------
(* commitment/pedersen.rs: the Pedersen vector commitment. *)

\* setup: generator = C::generator() * h_scalar, vec_gen = vec![C::Affine::rand(rng); n]
PedersenSetup(h_scalar, k, supported_size) ==
    [generator |-> PMul(G_curve, h_scalar),
     vec_gen |-> Const(supported_size, G_vec(k))]

\* commit fails with InvalidParameters unless |m| = |vec_gen|
CommitOk(params, m) == Len(m) = Len(params.vec_gen)

\* a commitment without the blinding term
CommitWithoutBlinding(params, m, r) == Msm(params.vec_gen, m, RingDim)

\* commit(params, m, r) = generator * r + msm(vec_gen, m)
commit(params, m, r) ==
    PAdd(PMul(params.generator, r), Msm(params.vec_gen, m, RingDim))

---------------------------------------------------------------------------
(* toolbox/src/vec.rs: shuffle. *)

\* vec_pk.shuffle(&mut rng): every arrangement of the keys
Shuffles(vec_pk) ==
    { [i \in 1 .. Len(vec_pk) |-> vec_pk[f[i]]] : f \in Permutations(1 .. Len(vec_pk)) }

\* an indicator that marks only the first occurrence of pk
IndicatorOfFirst(vec_pk, pk) ==
    [i \in 1 .. Len(vec_pk) |->
        IF vec_pk[i] = pk /\ \A j \in 1 .. i - 1 : vec_pk[j] # pk THEN 1 ELSE 0]

\* the indicator shuffle returns: 1 where the shuffled key equals pk, else 0
Indicator(vec_pk, pk) == [i \in 1 .. Len(vec_pk) |-> IF vec_pk[i] = pk THEN 1 ELSE 0]

---------------------------------------------------------------------------
(* The message digest and its absorption (protocol_linear.rs lines         *)
(* 155-158 and 239-243).  A message is a sequence of bytes.                *)

\* the length of a SHA-256 digest in bytes
DigestLen == 32

\* the length of the buffer h_msg is created over: &mut [0; 32]
BufferLen == 32

\* the k-th byte of the digest of msg: a stand-in for SHA-256 that tells
\* apart every two messages of the model
RECURSIVE Sha256Sum(_, _, _)
Sha256Sum(msg, i, k) ==
    IF i > Len(msg) THEN 0 ELSE (msg[i] * (i + k) + Sha256Sum(msg, i + 1, k)) % 256

Sha256Byte(msg, k) == Sha256Sum(msg, 1, k)

\* the ASCII code of a lower-case hex digit
HexChar(v) == IF v < 10 THEN 48 + v ELSE 87 + v

\* sha256::digest(&message): the digest as a string of hex digits, two per byte
digest(msg) ==
    [c \in 1 .. 2 * DigestLen |->
        HexChar(IF c % 2 = 1 THEN Sha256Byte(msg, (c + 1) \div 2) \div 16
                             ELSE Sha256Byte(msg, (c + 1) \div 2) % 16)]

\* <&mut [u8] as Write>::write(data): copies min(|slice|, |data|) bytes to the
\* front of the slice, and the slice becomes what is left behind them
SliceAfterWrite(slice, data) ==
    LET amt == IF Len(data) < Len(slice) THEN Len(data) ELSE Len(slice)
    IN SubSeq(slice, amt + 1, Len(slice))

\* the front of the digest, as far as a buffer of BufferLen bytes takes it
DigestWritten(msg) == SubSeq(digest(msg), 1, BufferLen)

\* the bytes h_msg holds when it is passed to append_message
DigestAbsorbed(msg) == SliceAfterWrite(Const(BufferLen, 0), digest(msg))

\* a transcript that starts without the ring's keys
RingNotAbsorbed(vec_pk) == TranscriptNew("RingSignature")

\* absorbing the ring's keys: the first thing prove and verify do
RingTranscriptInit(vec_pk) ==
    Absorb(TranscriptNew("RingSignature"), "public list", SerPoints(vec_pk))

---------------------------------------------------------------------------
(* ringsig/protocol_linear.rs: setup and prove of the linear-size ring     *)
(* signature.  c holds the scalars prove draws from the rng.               *)

\* lines 108-111 and 138-141: alpha, beta, r0, r1, rs, tau1, tau2, drawn in this
\* order after the four scalars the test and setup drew
LinCoins(seed) ==
    [alpha |-> Draw(seed, 5), beta |-> Draw(seed, 6),
     r0 |-> Draw(seed, 7), r1 |-> Draw(seed, 8),
     rs |-> Draw(seed, 9), tau1 |-> Draw(seed, 10), tau2 |-> Draw(seed, 11)]

\* lines 87-88: wit = vec_sk ++ vec_b
WitSk(params, wit) == SubSeq(wit, 1, Len(wit) - params.num_pub_inputs)

WitB(params, wit) == SubSeq(wit, Len(wit) - params.num_pub_inputs + 1, Len(wit))

\* lines 92-94: b_1 = 1^n - b_0
OneMinus(vec_b) == [i \in 1 .. Len(vec_b) |-> FSub(1, vec_b[i])]

\* lines 99-105: the sanity check on b_0, b_1
BitConstraints(vec_b0, vec_b1) ==
    \A i \in 1 .. Len(vec_b0) :
        FAdd(vec_b0[i], vec_b1[i]) = 1 /\ FMul(vec_b0[i], vec_b1[i]) = 0

\* lines 110-115: A = g^{b_0} h^{b_1} u^{alpha}, B = g^{r_0} h^{r_1} u^{beta},
\* with r_0 = vec![rand; n] and r_1 = vec![rand; n]
LinComA(params, vec_b, c) ==
    PAdd(commit(params.com_parameters[1], vec_b, c.alpha),
         commit(params.com_parameters[2], OneMinus(vec_b), 0))

LinComB(params, c) ==
    LET n == params.num_pub_inputs IN
    PAdd(commit(params.com_parameters[1], Const(n, c.r0), c.beta),
         commit(params.com_parameters[2], Const(n, c.r1), 0))

\* t1 without the term of b_1
LinT1WithoutB1(params, vec_b, c, y, z) ==
    LET n == params.num_pub_inputs
        powers_yn == generate_powers(y, n)
        vec_z1n == Const(n, z)
        vec_r0_yn == hadamard_product(Const(n, c.r0), powers_yn)
        vec_b0_z1n_yn == hadamard_product(vec_add(vec_z1n, vec_b), powers_yn)
    IN FAdd(inner_product(vec_r0_yn, vec_z1n),
            inner_product(vec_b0_z1n_yn, Const(n, c.r1)))

\* lines 125-132: t1 and t2
LinT1(params, vec_b, c, y, z) ==
    LET n == params.num_pub_inputs
        powers_yn == generate_powers(y, n)
        vec_z1n == Const(n, z)
        vec_r0_yn == hadamard_product(Const(n, c.r0), powers_yn)
        vec_z1n_b1 == vec_add(vec_z1n, OneMinus(vec_b))
        vec_b0_z1n_yn == hadamard_product(vec_add(vec_z1n, vec_b), powers_yn)
    IN FAdd(inner_product(vec_r0_yn, vec_z1n_b1),
            inner_product(vec_b0_z1n_yn, Const(n, c.r1)))

LinT2(params, c, y) ==
    LET n == params.num_pub_inputs
        vec_r0_yn == hadamard_product(Const(n, c.r0), generate_powers(y, n))
    IN inner_product(vec_r0_yn, Const(n, c.r1))

\* line 143: E = P^{y^n o r_0} Com_ck(-rs; 0)
LinComE(params, c, y) ==
    LET n == params.num_pub_inputs
        vec_r0_yn == hadamard_product(Const(n, c.r0), generate_powers(y, n))
    IN PAdd(Msm(params.vec_pk, vec_r0_yn, RingDim),
            commit(params.com_parameters[3], <<FNeg(c.rs)>>, 0))

\* lines 144-147: the parameters (v; u) T1 and T2 are committed under
ParamUV(params) ==
    [generator |-> params.com_parameters[2].generator,
     vec_gen |-> <<params.com_parameters[1].generator>>]

\* lines 148-149: T = v^{t} u^{tau}
LinComT(params, tau, t) == commit(ParamUV(params), <<tau>>, t)

\* lines 164-166: zeta = (b_0 + z 1^n + r_0 x) o y^n, eta = b_1 + z 1^n + r_1 x;
\* LinEtaWithoutZ is eta with the term z 1^n left out
LinZeta(params, vec_b, r0, y, z, x) ==
    LET n == params.num_pub_inputs
        b0_z1n_r0x == vec_add(vec_b, vec_add(Const(n, z), scalar_product(Const(n, r0), x)))
    IN hadamard_product(b0_z1n_r0x, generate_powers(y, n))

LinEtaWithoutZ(params, vec_b, r1, z, x) ==
    LET n == params.num_pub_inputs
    IN vec_add(OneMinus(vec_b), scalar_product(Const(n, r1), x))

LinEta(params, vec_b, r1, z, x) ==
    LET n == params.num_pub_inputs
    IN vec_add(OneMinus(vec_b), vec_add(Const(n, z), scalar_product(Const(n, r1), x)))

\* lines 183-191: the loop over the ring that sums y^{i} s_j over the signer's
\* positions; j counts the secret keys used, and vec_sk[j] must exist
RECURSIVE FsLoop(_, _, _, _, _, _)
FsLoop(powers_yn, vec_b, vec_sk, i, j, sum) ==
    IF i > Len(vec_b) THEN [ok |-> TRUE, j |-> j, sum |-> sum]
    ELSE LET term == FMul(powers_yn[i], vec_b[i]) IN
         IF term = 0 THEN FsLoop(powers_yn, vec_b, vec_sk, i + 1, j, sum)
         ELSE IF j + 1 > Len(vec_sk) THEN [ok |-> FALSE, j |-> j, sum |-> sum]
         ELSE FsLoop(powers_yn, vec_b, vec_sk, i + 1, j + 1,
                     FAdd(sum, FMul(term, vec_sk[j + 1])))

\* lines 164-200: the openings
LinOpenings(params, wit, c, y, z, x) ==
    LET vec_b == WitB(params, wit)
        zeta == LinZeta(params, vec_b, c.r0, y, z, x)
        eta == LinEta(params, vec_b, c.r1, z, x)
        loop == FsLoop(generate_powers(y, params.num_pub_inputs), vec_b,
                       WitSk(params, wit), 1, 0, 0)
    IN [zeta |-> zeta,
        eta |-> eta,
        hat_t |-> inner_product(zeta, eta),
        taux |-> FAdd(FMul(c.tau1, x), FMul(c.tau2, FMul(x, x))),
        mu |-> FAdd(c.alpha, FMul(c.beta, x)),
        fs |-> FAdd(loop.sum, FMul(c.rs, x))]

\* lines 205-210: the signature prove returns for coins c and challenges y, z, x
LinearSignature(params, wit, c, msg, y, z, x) ==
    LET vec_b == WitB(params, wit) IN
    [commitments |-> << LinComA(params, vec_b, c), LinComB(params, c),
                        LinComE(params, c, y),
                        LinComT(params, c.tau1, LinT1(params, vec_b, c, y, z)),
                        LinComT(params, c.tau2, LinT2(params, c, y)) >>,
     openings |-> LinOpenings(params, wit, c, y, z, x),
     challenges |-> <<y, z, x>>,
     digest |-> digest(msg)]

\* lines 48-53: the three Pedersen setups: (vec_g, u), (vec_h, v) and the key's
LinComParameters(seed, supported_size) ==
    << PedersenSetup(NonZero(Draw(seed, 2)), 1, supported_size),
       PedersenSetup(NonZero(Draw(seed, 3)), 2, supported_size),
       PedersenSetup(NonZero(Draw(seed, 4)), 3, 1) >>

\* line 57: vec![C::Affine::rand(rng); supported_size - 1], then the signer's key
KeysBeforeShuffle(pk, count) == Const(count, G_decoy) \o <<pk>>

\* lines 41-70: setup
LinSetup ==
    /\ pc = "lin_setup"
    /\ LET supported_size == ring_par.ring_size
           com == LinComParameters(ring_wit.rng, supported_size)
           pk == commit(com[3], ring_wit.wit, 0)
       IN \E vec_pk \in Shuffles(KeysBeforeShuffle(pk, supported_size - 1)) :
            LET wit == ring_wit.wit \o Indicator(vec_pk, pk) IN
            /\ ring_par' = [num_witness |-> Len(wit),
                            num_pub_inputs |-> supported_size,
                            com_parameters |-> com,
                            message |-> ring_par.message,
                            vec_pk |-> vec_pk]
            /\ ring_wit' = [ring_wit EXCEPT !.wit = wit]
    /\ pc' = "lin_prove"
    /\ UNCHANGED <<lib_vars, ipa_vars, oracle, tamper, ring_pv, ring_sig, ring_vf>>

\* lines 79-122: A, B and the challenges y, z
LinProveCommit ==
    /\ pc = "lin_prove"
    /\ LET vec_b == WitB(ring_par, ring_wit.wit)
           c == LinCoins(ring_wit.rng)
       IN IF ~BitConstraints(vec_b, OneMinus(vec_b))
          THEN /\ ring_pv' = [result |-> "panic"]
               /\ pc' = "lin_failed"
               /\ UNCHANGED oracle
          ELSE LET com_A == LinComA(ring_par, vec_b, c)
                   com_B == LinComB(ring_par, c)
                   tr == Absorb(RingTranscriptInit(ring_par.vec_pk),
                                "commitments A,B", com_A \o com_B)
                   q_y == ChallengeQuery(tr, "challenge y")
               IN \E y, z \in Challenges :
                    LET o_y == Answered(oracle, q_y, y)
                        tr_y == Absorb(tr, "challenge y", <<y>>)
                        q_z == ChallengeQuery(tr_y, "challenge z")
                    IN /\ AnswersIn(oracle, q_y, y)
                       /\ AnswersIn(o_y, q_z, z)
                       /\ oracle' = Answered(o_y, q_z, z)
                       /\ ring_pv' = [result |-> "none", c |-> c, y |-> y, z |-> z, x |-> 0,
                                      transcript |-> Absorb(tr_y, "challenge z", <<z>>)]
                       /\ pc' = "lin_mask"
    /\ UNCHANGED <<lib_vars, ipa_vars, tamper, ring_par, ring_wit, ring_sig, ring_vf>>

\* lines 125-161: E, T1, T2, the message digest and the challenge x
LinProveMask ==
    /\ pc = "lin_mask"
    /\ LET vec_b == WitB(ring_par, ring_wit.wit)
           c == ring_pv.c
           y == ring_pv.y
           z == ring_pv.z
           com_E == LinComE(ring_par, c, y)
           com_T1 == LinComT(ring_par, c.tau1, LinT1(ring_par, vec_b, c, y, z))
           com_T2 == LinComT(ring_par, c.tau2, LinT2(ring_par, c, y))
           tr == Absorb(Absorb(ring_pv.transcript, "commitments A,B",
                               com_E \o com_T1 \o com_T2),
                        "message digest", DigestAbsorbed(ring_par.message))
           q_x == ChallengeQuery(tr, "challenge x")
       IN \E x \in Challenges :
            /\ OracleAnswers(q_x, x)
            /\ oracle' = OracleWith(q_x, x)
            /\ ring_pv' = [ring_pv EXCEPT !.x = x,
                                          !.transcript = Absorb(tr, "challenge x", <<x>>)]
    /\ pc' = "lin_respond"
    /\ UNCHANGED <<lib_vars, ipa_vars, tamper, ring_par, ring_wit, ring_sig, ring_vf>>

\* lines 164-210: the openings, the assertion on j, and the signature
LinProveRespond ==
    /\ pc = "lin_respond"
    /\ LET vec_sk == WitSk(ring_par, ring_wit.wit)
           loop == FsLoop(generate_powers(ring_pv.y, ring_par.num_pub_inputs),
                          WitB(ring_par, ring_wit.wit), vec_sk, 1, 0, 0)
       IN IF ~loop.ok \/ loop.j # Len(vec_sk)
          THEN /\ ring_pv' = [ring_pv EXCEPT !.result = "panic"]
               /\ pc' = "lin_failed"
               /\ UNCHANGED ring_sig
          ELSE /\ ring_sig' = LinearSignature(ring_par, ring_wit.wit, ring_pv.c,
                                              ring_par.message,
                                              ring_pv.y, ring_pv.z, ring_pv.x)
               /\ ring_pv' = [ring_pv EXCEPT !.result = "Ok"]
               /\ pc' = "lin_proved"
    /\ UNCHANGED <<lib_vars, ipa_vars, oracle, tamper, ring_par, ring_wit, ring_vf>>

---------------------------------------------------------------------------
(* ringsig/protocol_linear.rs: verify. *)

\* a verifier that does not compare the digest of its message with the signature's
DigestUnchecked(h, carried) == TRUE

\* line 240: assert_eq!(&h, digest)
DigestMatches(h, carried) == h = carried

\* lines 246-250: the re-derived (y, z, x) against the carried challenges
LinChallengesMatch(y, z, x, challenges) ==
    <<y, z, x>> = <<challenges[1], challenges[2], challenges[3]>>

\* lines 254-262: v^{hat_t} u^{taux} = v^{delta} T1^{x} T2^{x^2}
LinCheck1(params, sig, y, z, x) ==
    LET n == params.num_pub_inputs
        vec_0n == Const(n, 0)
        delta == FMul(inner_product(Const(n, 1), generate_powers(y, n)),
                      FAdd(z, FMul(z, z)))
        lhs == PAdd(commit(params.com_parameters[2], vec_0n, sig.openings.hat_t),
                    commit(params.com_parameters[1], vec_0n, sig.openings.taux))
        rhs == PAdd(PAdd(commit(params.com_parameters[2], vec_0n, delta),
                         PMul(sig.commitments[4], x)),
                    PMul(sig.commitments[5], FMul(x, x)))
    IN lhs = rhs

\* lines 266-275: g^{zeta o y^-n} h^{eta} u^{mu} = A B^{x} g^{z 1^n} h^{z 1^n}
LinCheck2(params, sig, y, z, x) ==
    LET n == params.num_pub_inputs
        zeta_yn == hadamard_product(sig.openings.zeta, generate_powers(FInv(y), n))
        vec_z1n == Const(n, z)
        lhs == PAdd(commit(params.com_parameters[1], zeta_yn, sig.openings.mu),
                    commit(params.com_parameters[2], sig.openings.eta, 0))
        rhs == PAdd(PAdd(sig.commitments[1], PMul(sig.commitments[2], x)),
                    PAdd(commit(params.com_parameters[1], vec_z1n, 0),
                         commit(params.com_parameters[2], vec_z1n, 0)))
    IN lhs = rhs

\* lines 279-283: P^{zeta} = g^{fs} E^{x} P^{z y^n}
LinCheck3(params, sig, y, z, x) ==
    LET n == params.num_pub_inputs
        vec_z_yn == scalar_product(generate_powers(y, n), z)
        lhs == Msm(params.vec_pk, sig.openings.zeta, RingDim)
        rhs == PAdd(PAdd(commit(params.com_parameters[3], <<sig.openings.fs>>, 0),
                         PMul(sig.commitments[3], x)),
                    Msm(params.vec_pk, vec_z_yn, RingDim))
    IN lhs = rhs

\* lines 286-287: hat_t = <zeta, eta>
LinCheck4(sig) ==
    sig.openings.hat_t = inner_product(sig.openings.zeta, sig.openings.eta)

\* the first of the four assertions that fails, 0 when none does
LinFirstFailure(params, sig, y, z, x) ==
    IF ~LinCheck1(params, sig, y, z, x) THEN 1
    ELSE IF ~LinCheck2(params, sig, y, z, x) THEN 2
    ELSE IF ~LinCheck3(params, sig, y, z, x) THEN 3
    ELSE IF ~LinCheck4(sig) THEN 4
    ELSE 0

\* lines 219-238: the ring, A, B, the challenges y and z, then E, T1, T2
LinVerifyCommit ==
    /\ pc = "lin_verify"
    /\ LET params == ring_vf.params
           com == ring_sig.commitments
           tr == Absorb(RingTranscriptInit(params.vec_pk),
                        "commitments A,B", com[1] \o com[2])
           q_y == ChallengeQuery(tr, "challenge y")
       IN \E y, z \in Challenges :
            LET o_y == Answered(oracle, q_y, y)
                tr_y == Absorb(tr, "challenge y", <<y>>)
                q_z == ChallengeQuery(tr_y, "challenge z")
            IN /\ AnswersIn(oracle, q_y, y)
               /\ AnswersIn(o_y, q_z, z)
               /\ oracle' = Answered(o_y, q_z, z)
               /\ ring_vf' = [ring_vf EXCEPT
                                !.y = y, !.z = z,
                                !.transcript =
                                    Absorb(Absorb(tr_y, "challenge z", <<z>>),
                                           "commitments A,B", com[3] \o com[4] \o com[5])]
    /\ pc' = "lin_vdigest"
    /\ UNCHANGED <<lib_vars, ipa_vars, tamper, ring_par, ring_wit, ring_pv, ring_sig>>

\* lines 239-250: the digest assertion, the challenge x, the comparison of
\* (y, z, x) with the carried challenges
LinVerifyChallenges ==
    /\ pc = "lin_vdigest"
    /\ IF ~DigestMatches(ring_vf.h, ring_sig.digest)
       THEN /\ ring_vf' = [ring_vf EXCEPT !.result = "panic"]
            /\ pc' = "lin_verified"
            /\ UNCHANGED oracle
       ELSE LET tr_h == Absorb(ring_vf.transcript, "message digest",
                               SliceAfterWrite(Const(BufferLen, 0), ring_vf.h))
                q_x == ChallengeQuery(tr_h, "challenge x")
            IN \E x \in Challenges :
                 /\ OracleAnswers(q_x, x)
                 /\ oracle' = OracleWith(q_x, x)
                 /\ IF LinChallengesMatch(ring_vf.y, ring_vf.z, x, ring_sig.challenges)
                    THEN /\ ring_vf' = [ring_vf EXCEPT
                                          !.x = x,
                                          !.transcript = Absorb(tr_h, "challenge x", <<x>>)]
                         /\ pc' = "lin_checks"
                    ELSE /\ ring_vf' = [ring_vf EXCEPT
                                          !.x = x,
                                          !.transcript = Absorb(tr_h, "challenge x", <<x>>),
                                          !.result = "InvalidProof"]
                         /\ pc' = "lin_verified"
    /\ UNCHANGED <<lib_vars, ipa_vars, tamper, ring_par, ring_wit, ring_pv, ring_sig>>

\* lines 252-290: the four assertions, then Ok(true)
LinVerifyChecks ==
    /\ pc = "lin_checks"
    /\ LET failed == LinFirstFailure(ring_vf.params, ring_sig,
                                     ring_vf.y, ring_vf.z, ring_vf.x)
       IN ring_vf' = [ring_vf EXCEPT !.failed = failed,
                                     !.result = IF failed = 0 THEN "Ok(true)" ELSE "panic"]
    /\ pc' = "lin_verified"
    /\ UNCHANGED <<lib_vars, ipa_vars, oracle, tamper, ring_par, ring_wit, ring_pv, ring_sig>>

---------------------------------------------------------------------------
(* The runs of the linear-size ring signature (protocol_linear.rs,         *)
(* test_ringsignature) and what the binding scenarios change.              *)

\* ring sizes 1 .. MaxRing
MaxRing == 3

\* the seeds of the rng are 0 .. MaxCoin
MaxCoin == 1

\* the first bytes of the test's message, "We"
TestMessage == <<87, 101>>

\* one bit of byte i of the message flipped
FlipBit(msg, i) == [msg EXCEPT ![i] = IF @ % 2 = 0 THEN @ + 1 ELSE @ - 1]

InitLinear ==
    /\ pc = "lin_setup"
    /\ \E ring_size \in 1 .. MaxRing, seed \in 0 .. MaxCoin :
         /\ ring_par = [ring_size |-> ring_size, message |-> TestMessage]
         /\ ring_wit = [wit |-> <<Draw(seed, 1)>>, rng |-> seed]
    /\ ring_pv = NoRing
    /\ ring_sig = NoRing
    /\ ring_vf = NoRing
    /\ ipa_in = NoRing
    /\ ipa_pv = NoProver
    /\ proof = NoProof
    /\ ipa_vf = NoVerifier
    /\ oracle = << >>
    /\ tamper = NoTamper
    /\ ped = NoRing
    /\ shuf = NoRing
    /\ pw = NoRing

\* the parameters verify is called with: the signer's, or with one bit of the
\* message flipped, or with one key replaced by a point from outside the ring
TamperedParams ==
    { [kind |-> "none", idx |-> 0, params |-> ring_par] }
    \cup { [kind |-> "message", idx |-> i,
            params |-> [ring_par EXCEPT !.message = FlipBit(@, i)]] :
              i \in 1 .. Len(ring_par.message) }
    \cup { [kind |-> "ring", idx |-> j,
            params |-> [ring_par EXCEPT !.vec_pk[j] = G_outside]] :
              j \in 1 .. Len(ring_par.vec_pk) }

\* test_ringsignature line 314: the signature goes to the verifier; h is the
\* digest of the verifier's message (line 239), a function of its parameters
LinTestVerify ==
    /\ pc = "lin_proved"
    /\ \E t \in TamperedParams :
         /\ tamper' = [kind |-> t.kind, idx |-> t.idx]
         /\ ring_vf' = [params |-> t.params, h |-> digest(t.params.message),
                        y |-> 0, z |-> 0, x |-> 0,
                        transcript |-> <<>>, result |-> "none", failed |-> 0]
    /\ pc' = "lin_verify"
    /\ UNCHANGED <<lib_vars, ipa_vars, oracle, ring_par, ring_wit, ring_pv, ring_sig>>

NextLinear ==
    \/ LinSetup
    \/ LinProveCommit
    \/ LinProveMask
    \/ LinProveRespond
    \/ LinTestVerify
    \/ LinVerifyCommit
    \/ LinVerifyChallenges
    \/ LinVerifyChecks

SpecLinear == InitLinear /\ [][NextLinear]_vars

---------------------------------------------------------------------------
(* ringsig/protocol_compressed_modification.rs: setup and prove of the     *)
(* ring signature compressed with the inner-product argument.              *)

\* lines 159-167 and 238-241: the scalars prove draws, after the six scalars
\* the test and setup drew
CmpCoins(seed) ==
    [alpha_1 |-> Draw(seed, 7), alpha_2 |-> Draw(seed, 8),
     alpha_3 |-> Draw(seed, 9), alpha_4 |-> Draw(seed, 10),
     r0 |-> Draw(seed, 11), r1 |-> Draw(seed, 12),
     r2 |-> Draw(seed, 13), r3 |-> Draw(seed, 14),
     rs |-> Draw(seed, 15), tau1 |-> Draw(seed, 16), tau2 |-> Draw(seed, 17)]

\* lines 52-62: the five Pedersen setups: (vec_g_1, u_1), (vec_h_1, v_1),
\* (vec_g_2, u_2), (vec_h_2, v_2) and the key's
CmpComParameters(seed, supported_size) ==
    << PedersenSetup(NonZero(Draw(seed, 2)), 1, supported_size),
       PedersenSetup(NonZero(Draw(seed, 3)), 2, supported_size),
       PedersenSetup(NonZero(Draw(seed, 4)), 3, supported_size),
       PedersenSetup(NonZero(Draw(seed, 5)), 4, supported_size),
       PedersenSetup(NonZero(Draw(seed, 6)), 5, 1) >>

\* lines 100-113: b' = b - bits(1), bits(1) = (1, 0, .., 0)
BPrime(vec_b) == [i \in 1 .. Len(vec_b) |-> IF i = 1 THEN FSub(vec_b[i], 1) ELSE vec_b[i]]

\* lines 168-175: A, B, C, D
CmpCommitments(params, vec_b, c) ==
    LET n == params.num_pub_inputs
        com == params.com_parameters
        vec_b2 == BPrime(vec_b)
    IN << PAdd(commit(com[1], vec_b, c.alpha_1), commit(com[2], OneMinus(vec_b), 0)),
          PAdd(commit(com[1], Const(n, c.r0), c.alpha_2), commit(com[2], Const(n, c.r1), 0)),
          PAdd(commit(com[3], vec_b2, c.alpha_3), commit(com[4], OneMinus(vec_b2), 0)),
          PAdd(commit(com[3], Const(n, c.r2), c.alpha_4), commit(com[4], Const(n, c.r3), 0)) >>

\* lines 185-213: the vectors of length 2n prove works with
CmpVectors(params, vec_b, c, y, z) ==
    LET n == params.num_pub_inputs
        vec_b2 == BPrime(vec_b)
        powers_yn == generate_powers(y, n)
        two_power_n == generate_powers(2 % Q, n)
    IN [b1_z2_b3 |-> OneMinus(vec_b) \o scalar_product(OneMinus(vec_b2), FPow(z, 2)),
        z_1n_z3_1n |-> Const(n, z) \o Const(n, FPow(z, 3)),
        z7_2n_z5_2n |-> scalar_product(two_power_n, FPow(z, 7))
                        \o scalar_product(two_power_n, FPow(z, 5)),
        b0_z2_b2 |-> vec_b \o scalar_product(vec_b2, FPow(z, 2)),
        yn_yn |-> powers_yn \o powers_yn,
        r0_r2 |-> Const(n, c.r0) \o Const(n, c.r2),
        r1_r3 |-> Const(n, c.r1) \o Const(n, c.r3)]

\* lines 214-228: t1
CmpT1(v) ==
    LET t1_part11 == hadamard_product(v.r0_r2, v.yn_yn)
        t1_part12 == vec_add(vec_add(v.b1_z2_b3, v.z_1n_z3_1n), v.z7_2n_z5_2n)
        t1_part21 == hadamard_product(vec_add(v.b0_z2_b2, v.z_1n_z3_1n), v.yn_yn)
    IN FAdd(inner_product(t1_part11, t1_part12), inner_product(t1_part21, v.r1_r3))

\* lines 230-233: t2
CmpT2(v) == inner_product(hadamard_product(v.r0_r2, v.yn_yn), v.r1_r3)

\* lines 187-189 and 243: E = P^{(y^n o r_0) ++ 0^n} Com_ck(-rs; 0)
CmpComE(params, c, y) ==
    LET n == params.num_pub_inputs
        vec_r0_yn_expanded == hadamard_product(Const(n, c.r0), generate_powers(y, n))
                              \o Const(n, 0)
    IN PAdd(Msm(params.vec_pk, vec_r0_yn_expanded, RingDim),
            commit(params.com_parameters[5], <<FNeg(c.rs)>>, 0))

\* lines 245-250: T = v_1^{t} u_1^{tau}
CmpParamUV(params) ==
    [generator |-> params.com_parameters[2].generator,
     vec_gen |-> <<params.com_parameters[1].generator>>]

CmpComT(params, tau, t) == commit(CmpParamUV(params), <<tau>>, t)

\* lines 268-277: zeta and eta, of length 2n
CmpZeta(v, x) ==
    hadamard_product(vec_add(vec_add(v.b0_z2_b2, v.z_1n_z3_1n), scalar_product(v.r0_r2, x)),
                     v.yn_yn)

CmpEta(v, x) ==
    vec_add(vec_add(v.b1_z2_b3, v.z_1n_z3_1n),
            vec_add(v.z7_2n_z5_2n, scalar_product(v.r1_r3, x)))

\* lines 293-302: the loop behind fs; j starts at 1 and grows in every
\* iteration, so vec_sk[j] reads the entries of wit that follow the secret key
RECURSIVE CmpFsLoop(_, _, _, _, _, _)
CmpFsLoop(powers_yn, vec_b, vec_sk, i, j, sum) ==
    IF i > Len(vec_b) THEN [ok |-> TRUE, j |-> j, sum |-> sum]
    ELSE LET term == FMul(powers_yn[i], vec_b[i]) IN
         IF term = 0 THEN CmpFsLoop(powers_yn, vec_b, vec_sk, i + 1, j + 1, sum)
         ELSE IF j + 1 > Len(vec_sk) THEN [ok |-> FALSE, j |-> j, sum |-> sum]
         ELSE CmpFsLoop(powers_yn, vec_b, vec_sk, i + 1, j + 1,
                        FAdd(sum, FMul(term, vec_sk[j + 1])))

\* lines 306-331 and 416-426, 510-526: the parameters of the inner-product
\* argument: G_i = g_i^{y^-i} + pk_i over (vec_g_1 ++ vec_g_2), H = vec_h_1 ++
\* vec_h_2, u = v_1, all weights 1
CmpIPAParams(params, y) ==
    LET com == params.com_parameters
        powers_yn_inverse == generate_powers(FInv(y), params.num_pub_inputs)
        vec_g_yn == [i \in 1 .. Len(com[1].vec_gen) |->
                        PMul(com[1].vec_gen[i], powers_yn_inverse[i])]
                    \o [i \in 1 .. Len(com[3].vec_gen) |->
                        PMul(com[3].vec_gen[i], powers_yn_inverse[i])]
        n == Len(vec_g_yn)
    IN [factors_G |-> Const(n, 1),
        factors_H |-> Const(n, 1),
        u |-> com[2].generator,
        vec_G |-> [i \in 1 .. n |-> PAdd(vec_g_yn[i], params.vec_pk[i])],
        vec_H |-> com[2].vec_gen \o com[4].vec_gen]

\* lines 279-303: the openings besides the folded zeta and eta
CmpOpenings(params, wit, c, y, z, x, a, b) ==
    LET v == CmpVectors(params, WitB(params, wit), c, y, z)
        loop == CmpFsLoop(generate_powers(y, params.num_pub_inputs),
                          WitB(params, wit), WitSk(params, wit), 1, 1, 0)
    IN [zeta |-> <<a>>,
        eta |-> <<b>>,
        hat_t |-> inner_product(CmpZeta(v, x), CmpEta(v, x)),
        taux |-> FAdd(FMul(c.tau1, x), FMul(c.tau2, FMul(x, x))),
        mu_1 |-> FAdd(c.alpha_1, FMul(c.alpha_2, x)),
        mu_2 |-> FAdd(FMul(c.alpha_2, FMul(z, z)), FMul(c.alpha_4, x)),
        fs |-> FAdd(loop.sum, FMul(c.rs, x))]

\* lines 52-62, 66-69: setup
CmpSetup ==
    /\ pc = "cmp_setup"
    /\ LET supported_size == ring_par.ring_size
           com == CmpComParameters(ring_wit.rng, supported_size)
           pk == commit(com[5], ring_wit.wit, 0)
       IN \E vec_pk \in Shuffles(KeysBeforeShuffle(pk, 2 * supported_size - 1)) :
            LET wit == ring_wit.wit \o Indicator(vec_pk, pk) IN
            /\ ring_par' = [num_witness |-> Len(wit),
                            num_pub_inputs |-> supported_size,
                            com_parameters |-> com,
                            message |-> ring_par.message,
                            vec_pk |-> vec_pk]
            /\ ring_wit' = [ring_wit EXCEPT !.wit = wit]
    /\ pc' = "cmp_prove"
    /\ UNCHANGED <<lib_vars, ipa_vars, oracle, tamper, ring_pv, ring_sig, ring_vf>>

\* lines 88-182: A, B, C, D and the challenges y, z
CmpProveCommit ==
    /\ pc = "cmp_prove"
    /\ LET vec_b == WitB(ring_par, ring_wit.wit)
           c == CmpCoins(ring_wit.rng)
       IN IF ~BitConstraints(vec_b, OneMinus(vec_b))
          THEN /\ ring_pv' = [result |-> "panic"]
               /\ pc' = "cmp_failed"
               /\ UNCHANGED oracle
          ELSE LET com == CmpCommitments(ring_par, vec_b, c)
                   tr == Absorb(RingTranscriptInit(ring_par.vec_pk),
                                "commitments A,B,C,D", SerPoints(com))
                   q_y == ChallengeQuery(tr, "challenge y")
               IN \E y, z \in Challenges :
                    LET o_y == Answered(oracle, q_y, y)
                        tr_y == Absorb(tr, "challenge y", <<y>>)
                        q_z == ChallengeQuery(tr_y, "challenge z")
                    IN /\ AnswersIn(oracle, q_y, y)
                       /\ AnswersIn(o_y, q_z, z)
                       /\ oracle' = Answered(o_y, q_z, z)
                       /\ ring_pv' = [result |-> "none", c |-> c, y |-> y, z |-> z, x |-> 0,
                                      commitments |-> com,
                                      transcript |-> Absorb(tr_y, "challenge z", <<z>>)]
                       /\ pc' = "cmp_mask"
    /\ UNCHANGED <<lib_vars, ipa_vars, tamper, ring_par, ring_wit, ring_sig, ring_vf>>

\* lines 184-261: t1, t2, E, T1, T2, the message digest and the challenge x
CmpProveMask ==
    /\ pc = "cmp_mask"
    /\ LET c == ring_pv.c
           v == CmpVectors(ring_par, WitB(ring_par, ring_wit.wit), c, ring_pv.y, ring_pv.z)
           com_E == CmpComE(ring_par, c, ring_pv.y)
           com_T1 == CmpComT(ring_par, c.tau1, CmpT1(v))
           com_T2 == CmpComT(ring_par, c.tau2, CmpT2(v))
           tr == Absorb(Absorb(ring_pv.transcript, "commitments E,T1,T2",
                               SerPoints(<<com_E, com_T1, com_T2>>)),
                        "message digest", DigestAbsorbed(ring_par.message))
           q_x == ChallengeQuery(tr, "challenge x")
       IN \E x \in Challenges :
            /\ OracleAnswers(q_x, x)
            /\ oracle' = OracleWith(q_x, x)
            /\ ring_pv' = [ring_pv EXCEPT
                             !.x = x,
                             !.commitments = @ \o <<com_E, com_T1, com_T2>>,
                             !.transcript = Absorb(tr, "challenge x", <<x>>)]
    /\ pc' = "cmp_respond"
    /\ UNCHANGED <<lib_vars, ipa_vars, tamper, ring_par, ring_wit, ring_sig, ring_vf>>

\* lines 268-333: zeta, eta, the loop behind fs, and the call of
\* InnerProductProtocol::prove on (zeta, eta)
CmpProveCompress ==
    /\ pc = "cmp_respond"
    /\ LET v == CmpVectors(ring_par, WitB(ring_par, ring_wit.wit), ring_pv.c,
                           ring_pv.y, ring_pv.z)
           loop == CmpFsLoop(generate_powers(ring_pv.y, ring_par.num_pub_inputs),
                             WitB(ring_par, ring_wit.wit),
                             WitSk(ring_par, ring_wit.wit), 1, 1, 0)
           param == CmpIPAParams(ring_par, ring_pv.y)
       IN IF ~loop.ok
          THEN \* vec_sk[j] is out of bounds
               /\ ring_pv' = [ring_pv EXCEPT !.result = "panic"]
               /\ pc' = "cmp_failed"
               /\ UNCHANGED ipa_in
          ELSE /\ ipa_in' = [n |-> Len(param.vec_G), d |-> RingDim, params |-> param,
                             vec_a |-> CmpZeta(v, ring_pv.x),
                             vec_b |-> CmpEta(v, ring_pv.x),
                             target_P |-> PZero(RingDim)]
               /\ pc' = "ipa_prove"
               /\ UNCHANGED ring_pv
    /\ UNCHANGED <<lib_vars, ipa_pv, proof, ipa_vf, oracle, tamper, ring_par, ring_wit,
                   ring_sig, ring_vf>>

\* lines 333-354: the `?` on the inner-product proof, the openings, the
\* assertion on j, and the signature
CmpProveReturn ==
    /\ pc \in {"ipa_proved", "ipa_failed"}
    /\ LET vec_sk == WitSk(ring_par, ring_wit.wit)
           loop == CmpFsLoop(generate_powers(ring_pv.y, ring_par.num_pub_inputs),
                             WitB(ring_par, ring_wit.wit), vec_sk, 1, 1, 0)
       IN IF pc = "ipa_failed"
          THEN /\ ring_pv' = [ring_pv EXCEPT !.result = ipa_pv.result]
               /\ pc' = "cmp_failed"
               /\ UNCHANGED ring_sig
          ELSE IF loop.j # Len(vec_sk)
          THEN /\ ring_pv' = [ring_pv EXCEPT !.result = "panic"]
               /\ pc' = "cmp_failed"
               /\ UNCHANGED ring_sig
          ELSE /\ ring_sig' = [commitments |-> ring_pv.commitments,
                               openings |-> CmpOpenings(ring_par, ring_wit.wit, ring_pv.c,
                                                        ring_pv.y, ring_pv.z, ring_pv.x,
                                                        proof.a, proof.b),
                               compression_proof |-> proof,
                               challenges |-> <<ring_pv.y, ring_pv.z, ring_pv.x>>,
                               digest |-> digest(ring_par.message)]
               /\ ring_pv' = [ring_pv EXCEPT !.result = "Ok"]
               /\ pc' = "cmp_proved"
    /\ UNCHANGED <<lib_vars, ipa_vars, oracle, tamper, ring_par, ring_wit, ring_vf>>

---------------------------------------------------------------------------
(* ringsig/protocol_compressed_modification.rs: verify. *)

\* lines 400-406: delta, with two_power_n = (2, .., 2)
CmpDelta(params, y, z) ==
    LET n == params.num_pub_inputs
        powers_yn == generate_powers(y, n)
        two_power_n == Const(n, 2 % Q)
        delta_1 == FMul(FAdd(FAdd(z, FPow(z, 2)),
                             FAdd(FPow(z, 5), FAdd(FPow(z, 6), FPow(z, 7)))),
                        inner_product(Const(n, 1), powers_yn))
        delta_21 == hadamard_product(Const(2 * n, 1), powers_yn \o powers_yn)
        delta_2 == FMul(FPow(z, 8), inner_product(delta_21, two_power_n \o two_power_n))
    IN FAdd(delta_1, delta_2)

\* lines 410-411
CmpRhsStep1(params, sig, y, z, x) ==
    LET n == params.num_pub_inputs
        com == params.com_parameters
    IN PSub(PAdd(PAdd(commit(com[2], Const(n, 0), CmpDelta(params, y, z)),
                      PMul(sig.commitments[6], x)),
                 PMul(sig.commitments[7], FMul(x, x))),
            commit(com[1], Const(n, 0), sig.openings.taux))

\* lines 430-435, 463-467
CmpRhsStep2(params, sig, y, z, x) ==
    LET n == params.num_pub_inputs
        com == params.com_parameters
        two_power_n == Const(n, 2 % Q)
        vec_z1n == Const(n, z)
        vec_z3_1n == Const(n, FPow(z, 3))
        vec_z1n_z72n == vec_add(vec_z1n, scalar_product(two_power_n, FPow(z, 7)))
        vec_z3n_z52n == vec_add(vec_z3_1n, scalar_product(two_power_n, FPow(z, 5)))
    IN PAdd(PAdd(PAdd(sig.commitments[1], PMul(sig.commitments[2], x)),
                 PAdd(PMul(sig.commitments[3], FPow(z, 2)), PMul(sig.commitments[4], x))),
            PAdd(PAdd(commit(com[1], vec_z1n, 0), commit(com[3], vec_z3_1n, 0)),
                 PAdd(commit(com[2], vec_z1n_z72n, 0), commit(com[4], vec_z3n_z52n, 0))))

\* lines 472-480
CmpRhsStep3(params, sig, y, z, x) ==
    LET vec_z_yn == scalar_product(generate_powers(y, params.num_pub_inputs), z)
    IN PAdd(PAdd(commit(params.com_parameters[5], <<sig.openings.fs>>, 0),
                 PMul(sig.commitments[5], x)),
            Msm(params.vec_pk, vec_z_yn \o vec_z_yn, RingDim))

\* line 509
CmpRHS(params, sig, y, z, x) ==
    PAdd(PAdd(CmpRhsStep1(params, sig, y, z, x), CmpRhsStep2(params, sig, y, z, x)),
         CmpRhsStep3(params, sig, y, z, x))

\* lines 363-490: the three right-hand sides, computed from the carried
\* challenges (line 379), then the ring, A, B, C, D, the challenges y and z,
\* and E, T1, T2
CmpVerifyCommit ==
    /\ pc = "cmp_verify"
    /\ LET params == ring_vf.params
           com == ring_sig.commitments
           carried == ring_sig.challenges
           tr == Absorb(RingTranscriptInit(params.vec_pk), "commitments A,B,C,D",
                        SerPoints(SubSeq(com, 1, 4)))
           q_y == ChallengeQuery(tr, "challenge y")
       IN \E y, z \in Challenges :
            LET o_y == Answered(oracle, q_y, y)
                tr_y == Absorb(tr, "challenge y", <<y>>)
                q_z == ChallengeQuery(tr_y, "challenge z")
            IN /\ AnswersIn(oracle, q_y, y)
               /\ AnswersIn(o_y, q_z, z)
               /\ oracle' = Answered(o_y, q_z, z)
               /\ ring_vf' = [ring_vf EXCEPT
                                !.y = y, !.z = z,
                                !.RHS = CmpRHS(params, ring_sig,
                                               carried[1], carried[2], carried[3]),
                                !.transcript =
                                    Absorb(Absorb(tr_y, "challenge z", <<z>>),
                                           "commitments E,T1,T2",
                                           SerPoints(SubSeq(com, 5, 7)))]
    /\ pc' = "cmp_vdigest"
    /\ UNCHANGED <<lib_vars, ipa_vars, tamper, ring_par, ring_wit, ring_pv, ring_sig>>

\* lines 491-529: the digest assertion, the challenge x, the comparison of
\* (y, z, x) with the carried challenges, and the call of
\* InnerProductProtocol::verify on RHS
CmpVerifyChallenges ==
    /\ pc = "cmp_vdigest"
    /\ IF ~DigestMatches(ring_vf.h, ring_sig.digest)
       THEN /\ ring_vf' = [ring_vf EXCEPT !.result = "panic"]
            /\ pc' = "cmp_verified"
            /\ UNCHANGED <<oracle, ipa_in, proof>>
       ELSE LET tr_h == Absorb(ring_vf.transcript, "message digest",
                               SliceAfterWrite(Const(BufferLen, 0), ring_vf.h))
                q_x == ChallengeQuery(tr_h, "challenge x")
                param == CmpIPAParams(ring_vf.params, ring_sig.challenges[1])
            IN \E x \in Challenges :
                 /\ OracleAnswers(q_x, x)
                 /\ oracle' = OracleWith(q_x, x)
                 /\ IF <<ring_vf.y, ring_vf.z, x>> # SubSeq(ring_sig.challenges, 1, 3)
                    THEN /\ ring_vf' = [ring_vf EXCEPT
                                          !.x = x,
                                          !.transcript = Absorb(tr_h, "challenge x", <<x>>),
                                          !.result = "InvalidProof"]
                         /\ pc' = "cmp_verified"
                         /\ UNCHANGED <<ipa_in, proof>>
                    ELSE /\ ring_vf' = [ring_vf EXCEPT
                                          !.x = x,
                                          !.transcript = Absorb(tr_h, "challenge x", <<x>>)]
                         /\ ipa_in' = [n |-> Len(param.vec_G), d |-> RingDim,
                                       params |-> param, vec_a |-> <<>>, vec_b |-> <<>>,
                                       target_P |-> ring_vf.RHS]
                         /\ proof' = ring_sig.compression_proof
                         /\ pc' = "ipa_verify"
    /\ UNCHANGED <<lib_vars, ipa_pv, ipa_vf, tamper, ring_par, ring_wit, ring_pv, ring_sig>>

\* lines 529-532: the `?` on the inner-product verification, then Ok(true)
CmpVerifyReturn ==
    /\ pc = "ipa_verified"
    /\ ring_vf' = [ring_vf EXCEPT !.result =
                     IF ipa_vf.result = "Ok" THEN "Ok(true)" ELSE ipa_vf.result]
    /\ pc' = "cmp_verified"
    /\ UNCHANGED <<lib_vars, ipa_vars, oracle, tamper, ring_par, ring_wit, ring_pv, ring_sig>>

---------------------------------------------------------------------------
(* The runs of the compressed ring signature                               *)
(* (protocol_compressed_modification.rs, test_ringsignature).              *)

\* ring sizes 2^0 .. 2^MaxLogRing
MaxLogRing == 1

InitCompressed ==
    /\ pc = "cmp_setup"
    /\ \E k \in 0 .. MaxLogRing, seed \in 0 .. MaxCoin :
         /\ ring_par = [ring_size |-> Pow2(k), message |-> TestMessage]
         /\ ring_wit = [wit |-> <<Draw(seed, 1)>>, rng |-> seed]
    /\ ring_pv = NoRing
    /\ ring_sig = NoRing
    /\ ring_vf = NoRing
    /\ ipa_in = NoRing
    /\ ipa_pv = NoProver
    /\ proof = NoProof
    /\ ipa_vf = NoVerifier
    /\ oracle = << >>
    /\ tamper = NoTamper
    /\ ped = NoRing
    /\ shuf = NoRing
    /\ pw = NoRing

\* the parameters verify is called with: the signer's, or with one bit of the
\* message flipped
CmpTamperedParams ==
    { [kind |-> "none", idx |-> 0, params |-> ring_par],
      [kind |-> "message", idx |-> 1,
       params |-> [ring_par EXCEPT !.message = FlipBit(@, 1)]] }

\* test_ringsignature line 558: the signature goes to the verifier
CmpTestVerify ==
    /\ pc = "cmp_proved"
    /\ \E t \in CmpTamperedParams :
         /\ tamper' = [kind |-> t.kind, idx |-> t.idx]
         /\ ring_vf' = [params |-> t.params, h |-> digest(t.params.message),
                        y |-> 0, z |-> 0, x |-> 0, RHS |-> <<>>,
                        transcript |-> <<>>, result |-> "none"]
    /\ pc' = "cmp_verify"
    /\ UNCHANGED <<lib_vars, ipa_vars, oracle, ring_par, ring_wit, ring_pv, ring_sig>>

NextCompressed ==
    \/ CmpSetup
    \/ CmpProveCommit
    \/ CmpProveMask
    \/ CmpProveCompress
    \/ IPAProveStart
    \/ IPAProveBase
    \/ IPAProveLoop
    \/ IPAProveReturn
    \/ CmpProveReturn
    \/ CmpTestVerify
    \/ CmpVerifyCommit
    \/ CmpVerifyChallenges
    \/ IPAVerifyStart
    \/ IPAVerifyRound
    \/ IPAVerifyFinal
    \/ CmpVerifyReturn

SpecCompressed == InitCompressed /\ [][NextCompressed]_vars

---------------------------------------------------------------------------
(* commitment/pedersen.rs: open, verify, and the runs of the scheme on its *)
(* own (test_pedersen, and the trials of the binding property: a second    *)
(* commitment under the same parameters).                                  *)

\* lines 73-79
open(m, r) == [message |-> m, random |-> r]

\* a verifier that leaves the blinding term out
VerifyWithoutRandom(params, cm, opening) ==
    IF Len(opening.message) # Len(params.vec_gen) THEN "panic"
    ELSE IF Msm(params.vec_gen, opening.message, RingDim) = cm
    THEN "Ok(true)" ELSE "Ok(false)"

\* lines 87-98; C::msm(..).unwrap() panics on vectors of different lengths
PedersenVerify(params, cm, opening) ==
    IF Len(opening.message) # Len(params.vec_gen) THEN "panic"
    ELSE LET msm == Msm(params.vec_gen, opening.message, RingDim)
             cm_prime == PAdd(PMul(params.generator, opening.random), msm)
         IN IF cm_prime = cm THEN "Ok(true)" ELSE "Ok(false)"

\* supported sizes 0 .. MaxSize
MaxSize == 2

\* the entries of a message vector are 0 .. MaxEntry
MaxEntry == 2

\* verify is repeated MaxRepeat times on one commitment
MaxRepeat == 2

\* message vectors of a given length
PedMessages(len) == [1 .. len -> 0 .. MaxEntry]

NoPedersen ==
    [supported_size |-> 0, seed |-> 0, params |-> <<>>, m |-> <<>>, r |-> 0,
     cm |-> <<>>, result |-> "none", opening |-> <<>>, verified |-> <<>>,
     other |-> <<>>]

InitPedersen ==
    /\ pc = "ped_setup"
    /\ \E supported_size \in 0 .. MaxSize, seed \in 0 .. MaxCoin :
         ped = [NoPedersen EXCEPT !.supported_size = supported_size, !.seed = seed]
    /\ shuf = NoRing
    /\ pw = NoRing
    /\ ring_par = NoRing
    /\ ring_wit = NoRing
    /\ ring_pv = NoRing
    /\ ring_sig = NoRing
    /\ ring_vf = NoRing
    /\ ipa_in = NoRing
    /\ ipa_pv = NoProver
    /\ proof = NoProof
    /\ ipa_vf = NoVerifier
    /\ oracle = << >>
    /\ tamper = NoTamper

\* lines 31-43: setup
PedSetup ==
    /\ pc = "ped_setup"
    /\ ped' = [ped EXCEPT !.params =
                 PedersenSetup(NonZero(Draw(ped.seed, 1)), 1, ped.supported_size)]
    /\ pc' = "ped_commit"
    /\ UNCHANGED <<ipa_vars, oracle, tamper, ring_vars, shuf, pw>>

\* lines 51-68: commit on a message of the supported length, or one entry
\* shorter or longer
PedCommit ==
    /\ pc = "ped_commit"
    /\ \E len \in {ped.supported_size - 1, ped.supported_size, ped.supported_size + 1}
                  \cap Nat :
       \E m \in PedMessages(len), r \in Scalars :
         IF CommitOk(ped.params, m)
         THEN /\ ped' = [ped EXCEPT !.m = m, !.r = r, !.result = "Ok",
                                    !.cm = commit(ped.params, m, r)]
              /\ pc' = "ped_committed"
         ELSE /\ ped' = [ped EXCEPT !.m = m, !.r = r, !.result = "InvalidParameters"]
              /\ pc' = "ped_failed"
    /\ UNCHANGED <<ipa_vars, oracle, tamper, ring_vars, shuf, pw>>

\* lines 73-79: open
PedOpen ==
    /\ pc = "ped_committed"
    /\ ped' = [ped EXCEPT !.opening = open(ped.m, ped.r)]
    /\ pc' = "ped_verify"
    /\ UNCHANGED <<ipa_vars, oracle, tamper, ring_vars, shuf, pw>>

\* lines 87-98: verify, once more on the same commitment and opening
PedVerify ==
    /\ pc = "ped_verify"
    /\ Len(ped.verified) < MaxRepeat
    /\ ped' = [ped EXCEPT !.verified =
                 Append(@, PedersenVerify(ped.params, ped.cm, ped.opening))]
    /\ UNCHANGED <<pc, ipa_vars, oracle, tamper, ring_vars, shuf, pw>>

\* a trial of binding: a second message and random under the same parameters
PedTrial ==
    /\ pc = "ped_committed"
    /\ \E m \in PedMessages(Len(ped.m)), r \in {ped.r, FAdd(ped.r, 1)} :
         ped' = [ped EXCEPT !.other = [m |-> m, r |-> r,
                                       cm |-> commit(ped.params, m, r)]]
    /\ pc' = "ped_trial"
    /\ UNCHANGED <<ipa_vars, oracle, tamper, ring_vars, shuf, pw>>

NextPedersen ==
    \/ PedSetup
    \/ PedCommit
    \/ PedOpen
    \/ PedVerify
    \/ PedTrial

SpecPedersen == InitPedersen /\ [][NextPedersen]_vars

---------------------------------------------------------------------------
(* toolbox/src/vec.rs: the calls of shuffle on its own (test_shuffle).     *)

\* the points a ring and the searched key are taken from
ShufflePoints == {G_vec(1), G_decoy, G_outside}

\* rings of 0 .. MaxRing keys
ShuffleRings == UNION { [1 .. n -> ShufflePoints] : n \in 0 .. MaxRing }

InitShuffle ==
    /\ pc = "shuf_call"
    /\ \E vec_pk \in ShuffleRings, pk \in ShufflePoints :
         shuf = [vec_pk_in |-> vec_pk, pk |-> pk, vec_pk |-> vec_pk,
                 vec_b |-> <<>>, result |-> "none"]
    /\ ped = NoRing
    /\ pw = NoRing
    /\ ring_par = NoRing
    /\ ring_wit = NoRing
    /\ ring_pv = NoRing
    /\ ring_sig = NoRing
    /\ ring_vf = NoRing
    /\ ipa_in = NoRing
    /\ ipa_pv = NoProver
    /\ proof = NoProof
    /\ ipa_vf = NoVerifier
    /\ oracle = << >>
    /\ tamper = NoTamper

\* lines 14-26: shuffle(&mut vec_pk, pk); it has no failing path
ShuffleCall ==
    /\ pc = "shuf_call"
    /\ \E vec_pk \in Shuffles(shuf.vec_pk_in) :
         shuf' = [shuf EXCEPT !.vec_pk = vec_pk,
                              !.vec_b = Indicator(vec_pk, shuf.pk),
                              !.result = "returned"]
    /\ pc' = "shuf_returned"
    /\ UNCHANGED <<ipa_vars, oracle, tamper, ring_vars, ped, pw>>

\* lines 92-96: the loop of test_shuffle over the returned vector
ShuffleTestLoop ==
    /\ pc = "shuf_returned"
    /\ shuf' = [shuf EXCEPT !.result =
                  IF \A i \in 1 .. Len(shuf.vec_b) :
                        shuf.vec_b[i] = 1 => shuf.pk = shuf.vec_pk[i]
                  THEN "passed" ELSE "panic"]
    /\ pc' = "shuf_tested"
    /\ UNCHANGED <<ipa_vars, oracle, tamper, ring_vars, ped, pw>>

NextShuffle ==
    \/ ShuffleCall
    \/ ShuffleTestLoop

SpecShuffle == InitShuffle /\ [][NextShuffle]_vars

---------------------------------------------------------------------------
(* toolbox/src/vec.rs: generate_powers on its own (test_generate_powers). *)

\* lengths 0 .. MaxPowers
MaxPowers == 7

InitPowers ==
    /\ pc = "pow_call"
    /\ \E y \in Scalars, n \in 0 .. MaxPowers :
         pw = [y |-> y, n |-> n, result |-> <<>>, test |-> "none"]
    /\ ped = NoRing
    /\ shuf = NoRing
    /\ ring_par = NoRing
    /\ ring_wit = NoRing
    /\ ring_pv = NoRing
    /\ ring_sig = NoRing
    /\ ring_vf = NoRing
    /\ ipa_in = NoRing
    /\ ipa_pv = NoProver
    /\ proof = NoProof
    /\ ipa_vf = NoVerifier
    /\ oracle = << >>
    /\ tamper = NoTamper

\* lines 64-68: the call
PowersCall ==
    /\ pc = "pow_call"
    /\ pw' = [pw EXCEPT !.result = generate_powers(pw.y, pw.n)]
    /\ pc' = "pow_returned"
    /\ UNCHANGED <<ipa_vars, oracle, tamper, ring_vars, ped, shuf>>

\* lines 110-116: the assertion of test_generate_powers, for any y and n
PowersTest ==
    /\ pc = "pow_returned"
    /\ pw' = [pw EXCEPT !.test =
                IF pw.result = [i \in 1 .. pw.n |-> (pw.y ^ i) % Q]
                THEN "passed" ELSE "panic"]
    /\ pc' = "pow_tested"
    /\ UNCHANGED <<ipa_vars, oracle, tamper, ring_vars, ped, shuf>>

NextPowers ==
    \/ PowersCall
    \/ PowersTest

SpecPowers == InitPowers /\ [][NextPowers]_vars

---------------------------------------------------------------------------
(* The properties of the inner-product argument. *)

IPADone == pc = "ipa_verified"

IPAHonestTarget ==
    ipa_in.target_P = HonestP(ipa_in.params, ipa_in.vec_a, ipa_in.vec_b, ipa_in.d)

\* C1: IPA completeness.  For every power-of-two n, all vectors a, b, all
\* weights f_G, f_H, all generators and all non-zero challenges, verify returns
\* Ok for the proof prove returned, against
\* P = MSM(G, a o f_G) + MSM(H, b o f_H) + u <a, b>.
C1_IPACompleteness ==
    (IPADone /\ tamper.kind = "none" /\ IPAHonestTarget) => ipa_vf.result = "Ok"

\* an honest proof of the largest size, with rounds, was verified and accepted
C1_Witness ==
    /\ IPADone /\ tamper.kind = "none" /\ IPAHonestTarget
    /\ ipa_in.n = Pow2(MaxLogN)
    /\ Len(proof.vec_L) = MaxLogN
    /\ ipa_vf.result = "Ok"

\* C5 as stated: for an accepted proof over independent generators, replacing
\* proof.a by proof.a + 1, or proof.b by a different scalar, makes verify
\* return Err(InvalidProof).
C5_ScalarTamperRejected ==
    (IPADone /\ tamper.kind \in {"a", "b"} /\ IndependentGens(ipa_in.params))
    => ipa_vf.result = "InvalidProof"

\* the changed scalar enters the recomputed P: through u when the other scalar
\* is non-zero, through its generators when one of their weights is non-zero
ScalarCounts(kind) ==
    IF kind = "a"
    THEN proof.b # 0 \/ \E i \in 1 .. ipa_in.n : ipa_in.params.factors_G[i] # 0
    ELSE proof.a # 0 \/ \E i \in 1 .. ipa_in.n : ipa_in.params.factors_H[i] # 0

\* C5, amended: for an accepted proof over independent generators, replacing
\* proof.a by proof.a + 1 makes verify return Err(InvalidProof) provided
\* proof.b # 0 or some f_G[i] # 0; replacing proof.b by a different scalar does
\* provided proof.a # 0 or some f_H[i] # 0.
C5_ScalarTamperRejectedWhenCounted ==
    (IPADone /\ tamper.kind \in {"a", "b"} /\ IndependentGens(ipa_in.params)
       /\ ScalarCounts(tamper.kind))
    => ipa_vf.result = "InvalidProof"

\* scenario S2: n = 4 with rounds, proof.a + 1, rejected at the final check
C5_Witness ==
    /\ IPADone /\ tamper.kind = "a" /\ IndependentGens(ipa_in.params)
    /\ ScalarCounts("a")
    /\ ipa_in.n = 4
    /\ ipa_vf.i = Len(proof.vec_L)
    /\ ipa_vf.result = "InvalidProof"

\* C6: the verifier re-derives every x_j from the transcript, returns
\* Err(InvalidProof) as soon as x_j differs from proof.challenges[j], and never
\* accepts a proof whose carried challenge sequence differs from the
\* re-derived one.
C6_ChallengesRederived ==
    /\ \A j \in 1 .. Len(ipa_vf.challenges) :
          (j <= Len(proof.challenges) /\ ipa_vf.challenges[j] # proof.challenges[j])
          => (IPADone /\ ipa_vf.result = "InvalidProof" /\ j = Len(ipa_vf.challenges))
    /\ (IPADone /\ ipa_vf.result = "Ok") => proof.challenges = ipa_vf.challenges

\* C7: for an accepted proof, replacing a single L_j or a single R_j by a
\* different point makes verify reject.
C7_CommitmentTamperRejected ==
    (IPADone /\ tamper.kind \in {"L", "R"}) => ipa_vf.result = "InvalidProof"

\* a changed R_j whose challenge the oracle happened to repeat: the challenge
\* loop passed and the final comparison rejected
C7_Witness ==
    /\ IPADone /\ tamper.kind = "R"
    /\ ipa_vf.i = Len(proof.vec_L)
    /\ ipa_vf.challenges = proof.challenges
    /\ ipa_vf.result = "InvalidProof"

---------------------------------------------------------------------------
(* The properties of the linear-size ring signature. *)

LinDone == pc = "lin_verified"

\* the position of the signer's key in the shuffled ring
SignerPosition ==
    CHOOSE p \in 1 .. ring_par.num_pub_inputs :
        WitB(ring_par, ring_wit.wit)[p] = 1

\* the indicator of position j in a ring of n keys
UnitVector(n, j) == [i \in 1 .. n |-> IF i = j THEN 1 ELSE 0]

\* C3: completeness of the linear-size ring signature.  For every ring size
\* and every position of the signer after the shuffle, prove returns a
\* signature without a failed assertion, and verify passes its four checks
\* on it and returns Ok(true).
C3_LinearCompleteness ==
    /\ pc # "lin_failed"
    /\ (LinDone /\ tamper.kind = "none")
       => (ring_vf.result = "Ok(true)" /\ ring_vf.failed = 0)

\* a ring of the largest size, the signer neither first nor alone, accepted
C3_Witness ==
    /\ LinDone /\ tamper.kind = "none"
    /\ ring_par.num_pub_inputs = MaxRing
    /\ SignerPosition = 2
    /\ ring_vf.result = "Ok(true)"

\* C4: the signature does not reveal the signer's position.  Stated for the
\* openings zeta and eta: for every other position j of the ring, some masks
\* r_0, r_1 of prove lead a signer at j to the zeta and eta of the signature.
C4_PositionHidden ==
    pc = "lin_proved" =>
        \A j \in (1 .. ring_par.num_pub_inputs) \ {SignerPosition} :
            \E r0, r1 \in Scalars :
                LET vec_b == UnitVector(ring_par.num_pub_inputs, j)
                    ch == ring_sig.challenges
                IN /\ LinZeta(ring_par, vec_b, r0, ch[1], ch[2], ch[3])
                        = ring_sig.openings.zeta
                   /\ LinEta(ring_par, vec_b, r1, ch[2], ch[3])
                        = ring_sig.openings.eta

\* C8: message binding.  Verifying a signature prove returned against
\* parameters whose message differs from the signed one in a bit never
\* results in acceptance.
C8_MessageBinding ==
    (LinDone /\ tamper.kind = "message") => ring_vf.result # "Ok(true)"

\* the second byte of the message was changed and the digest assertion failed
C8_Witness ==
    /\ LinDone /\ tamper.kind = "message" /\ tamper.idx = 2
    /\ ring_vf.params.message # ring_par.message
    /\ ring_vf.result = "panic"

\* the transcript is collision-free on the challenge y: two different
\* transcripts never got the same y
CollisionFreeY ==
    \A q1, q2 \in DOMAIN oracle :
        (q1 # q2 /\ q1[Len(q1)].label = "challenge y" /\ q2[Len(q2)].label = "challenge y")
        => oracle[q1] # oracle[q2]

\* C9: ring binding.  Verifying a signature prove returned against
\* parameters in which one public key was replaced by a different point never
\* results in acceptance: the ring is absorbed before any challenge, so with a
\* collision-free transcript y changes and verify returns Err(InvalidProof).
C9_RingBinding ==
    (LinDone /\ tamper.kind = "ring" /\ CollisionFreeY)
    => ring_vf.result = "InvalidProof"

\* the signer's own key was replaced in a ring of several keys; y changed
C9_Witness ==
    /\ LinDone /\ tamper.kind = "ring" /\ CollisionFreeY
    /\ ring_par.num_pub_inputs > 1
    /\ tamper.idx = SignerPosition
    /\ ring_vf.y # ring_sig.challenges[1]
    /\ ring_vf.result = "InvalidProof"

\* the bytes a transcript absorbed under the label "message digest"
AbsorbedDigest(tr) ==
    tr[CHOOSE i \in 1 .. Len(tr) : tr[i].label = "message digest"].data

\* C10: the bytes absorbed under "message digest" are the complete digest:
\* a message whose digest differs in any position leads to different absorbed
\* bytes.
C10_DigestAbsorbed ==
    pc = "lin_respond" =>
        \A i \in 1 .. Len(ring_par.message) :
            LET other == FlipBit(ring_par.message, i) IN
            digest(other) # digest(ring_par.message)
            => DigestAbsorbed(other) # AbsorbedDigest(ring_pv.transcript)

---------------------------------------------------------------------------
(* The properties of the compressed ring signature. *)

CmpDone == pc = "cmp_verified"

\* C2: completeness of the compressed ring signature: the signature prove
\* returns on what setup produced is accepted, verify returns Ok(true)
C2_CompressedCompleteness ==
    (CmpDone /\ tamper.kind = "none") => ring_vf.result = "Ok(true)"

\* the compressed verifier, too, never accepts under a message that differs
\* from the signed one (the assertion of line 492)
CmpMessageBinding ==
    (CmpDone /\ tamper.kind = "message") => ring_vf.result # "Ok(true)"

---------------------------------------------------------------------------
(* The properties of the Pedersen commitment. *)

\* C11: binding.  Under parameters of Setup(s), s >= 2, two commitments are
\* the same point only if they are to the same message under the same random.
C11_PedersenBinding ==
    (pc = "ped_trial" /\ ped.supported_size >= 2 /\ ped.other.cm = ped.cm)
    => (ped.other.m = ped.m /\ ped.other.r = ped.r)

\* C12: Setup(s) samples each of the s vector generators on its own: for
\* s >= 2 no two of them are the same sample.
C12_SetupIndependent ==
    (pc # "ped_setup" /\ ped.supported_size >= 2)
    => \A i, j \in 1 .. Len(ped.params.vec_gen) :
          i # j => ped.params.vec_gen[i] # ped.params.vec_gen[j]

\* C13: round trip.  verify(params, commit(params, m, r), open(m, r)) returns
\* true, on every repetition.
C13_PedersenRoundTrip ==
    pc = "ped_verify" =>
        \A k \in 1 .. Len(ped.verified) : ped.verified[k] = "Ok(true)"

\* verify ran MaxRepeat times on a commitment to a non-zero vector of two
\* entries under a non-zero random
C13_Witness ==
    /\ pc = "ped_verify"
    /\ Len(ped.verified) = MaxRepeat
    /\ ped.supported_size = 2
    /\ ped.m = <<1, 2>>
    /\ ped.r # 0
    /\ ped.verified[MaxRepeat] = "Ok(true)"

\* C14: commit returns generator * r + MSM(vec_gen, m) when |m| = |vec_gen|;
\* when |m| # |vec_gen| it returns InvalidParameters and no commitment.  The
\* point is stated coordinate by coordinate.
C14_CommitContract ==
    pc \in {"ped_committed", "ped_failed"} =>
        IF Len(ped.m) = Len(ped.params.vec_gen)
        THEN /\ pc = "ped_committed"
             /\ ped.result = "Ok"
             /\ ped.cm = [c \in 1 .. RingDim |->
                            (ped.r * ped.params.generator[c]
                             + SumSeq([i \in 1 .. Len(ped.m) |->
                                          ped.m[i] * ped.params.vec_gen[i][c]])) % Q]
        ELSE /\ pc = "ped_failed"
             /\ ped.result = "InvalidParameters"
             /\ ped.cm = <<>>

\* a message one entry longer than the supported size was refused
C14_Witness ==
    /\ pc = "ped_failed"
    /\ ped.supported_size = 2
    /\ Len(ped.m) = 3
    /\ ped.result = "InvalidParameters"
    /\ ped.cm = <<>>

---------------------------------------------------------------------------
(* The properties of shuffle. *)

\* how often a point occurs in a ring
Occurrences(ring, p) == Cardinality({i \in 1 .. Len(ring) : ring[i] = p})

\* C15: shuffle(ring, pk) fails whenever pk is not an element of the ring; it
\* never returns an indicator vector for an absent key.
C15_ShuffleFailsOnAbsentKey ==
    (pc = "shuf_returned" /\ Occurrences(shuf.vec_pk_in, shuf.pk) = 0)
    => shuf.result # "returned"

\* C16: shuffle(ring, pk) leaves the ring a permutation of its input and
\* returns a vector b of the ring's length with b[i] = 1 exactly when
\* ring[i] = pk after the shuffle and b[i] = 0 otherwise.
C16_ShuffleContract ==
    pc = "shuf_returned" =>
        /\ Len(shuf.vec_pk) = Len(shuf.vec_pk_in)
        /\ \A p \in ShufflePoints :
              Occurrences(shuf.vec_pk, p) = Occurrences(shuf.vec_pk_in, p)
        /\ Len(shuf.vec_b) = Len(shuf.vec_pk)
        /\ \A i \in 1 .. Len(shuf.vec_pk) :
              /\ shuf.vec_b[i] \in {0, 1}
              /\ shuf.vec_b[i] = 1 <=> shuf.vec_pk[i] = shuf.pk

\* a ring with the key twice among other keys was reordered and both
\* positions are marked
C16_Witness ==
    /\ pc = "shuf_returned"
    /\ Len(shuf.vec_pk) = 3
    /\ shuf.vec_pk # shuf.vec_pk_in
    /\ Occurrences(shuf.vec_pk, shuf.pk) = 2
    /\ Occurrences(shuf.vec_b, 1) = 2

---------------------------------------------------------------------------
(* The witness that setup leaves behind. *)

\* the witness is the secret key followed by an indicator vector in {0,1}^N,
\* N the ring size setup was called with, of Hamming weight 1, whose 1 is at
\* the position of the signer's public key in the shuffled ring of N keys,
\* and that key occurs once in the ring
IndicatorSelectsSigner(key_params) ==
    LET b == Tail(ring_wit.wit)
        pk == commit(key_params, <<Head(ring_wit.wit)>>, 0)
        N == ring_par.num_pub_inputs
    IN /\ Len(b) = N
       /\ Len(ring_par.vec_pk) = N
       /\ \A i \in 1 .. Len(b) : b[i] \in {0, 1}
       /\ Occurrences(b, 1) = 1
       /\ \A i \in 1 .. Len(b) : b[i] = 1 => ring_par.vec_pk[i] = pk
       /\ Occurrences(ring_par.vec_pk, pk) = 1

\* C17: after every run of ring-signature setup the indicator part of the
\* witness is a vector in {0,1}^N of Hamming weight 1 whose 1 is at the
\* position of the signer's public key, which occurs once in the ring.  Here
\* for the setup of the compressed signature.
C17_IndicatorSelectsSigner ==
    pc = "cmp_prove" => IndicatorSelectsSigner(ring_par.com_parameters[5])

\* the same after the setup of the linear-size signature
LinIndicatorSelectsSigner ==
    pc = "lin_prove" => IndicatorSelectsSigner(ring_par.com_parameters[3])

\* what prove of the compressed signature parses as vec_b, the last N entries
\* of the witness, has Hamming weight 1.  This fails, too: the ring has 2N
\* keys, and when the signer's key lands in its first half vec_b is all zero.
CmpProveIndicatorWeight ==
    pc = "cmp_prove" => Occurrences(WitB(ring_par, ring_wit.wit), 1) = 1

---------------------------------------------------------------------------
(* The parameter checks of the inner-product argument. *)

\* the inputs of prove are well-formed: all six lengths are n = |vec_G| and n
\* is a power of two
WellFormedInputs ==
    LET n == Len(ipa_in.params.vec_G) IN
    /\ Len(ipa_in.params.vec_H) = n /\ Len(ipa_in.vec_a) = n /\ Len(ipa_in.vec_b) = n
    /\ Len(ipa_in.params.factors_G) = n /\ Len(ipa_in.params.factors_H) = n
    /\ \E k \in 0 .. MaxLogN + 1 : n = 2 ^ k

\* C18: prove returns Err(InvalidParameters) and emits no proof whenever one
\* of |vec_H|, |a|, |b|, |factors_G|, |factors_H| differs from n = |vec_G| or
\* n is not a power of two; no transcript round happens before the checks
\* pass.
C18_ProveRefusesMalformed ==
    (pc \notin {"ipa_prove", "ipa_verify", "ipa_vround", "ipa_verified"}
     /\ ~WellFormedInputs)
    => /\ pc = "ipa_failed"
       /\ ipa_pv.result = "InvalidParameters"
       /\ proof = NoProof
       /\ ipa_pv.transcript = <<>>
       /\ ipa_pv.rounds = 0
       /\ oracle = <<>>

\* prove refused n = 3
C18_Witness ==
    /\ pc = "ipa_failed"
    /\ Len(ipa_in.params.vec_G) = 3
    /\ Len(ipa_in.vec_a) = 3
    /\ ipa_pv.result = "InvalidParameters"
    /\ proof = NoProof

\* C19: verify answers a call with a wrong length (log_n >= 32, n # 2^log_n,
\* |vec_G|, |vec_H|, |factors_G|, |factors_H| # n, |vec_R| or |challenges|
\* # |vec_L|) with an error result: it neither accepts nor aborts.
C19_VerifyRefusesMalformed ==
    (pc = "ipa_verified" /\ tamper.kind \in MalformedKinds \cup {"extra challenge"})
    => ipa_vf.result \in {"InvalidParameters", "InvalidProof"}

---------------------------------------------------------------------------
(* The outcomes of a failed ring-signature verification. *)

\* C20: every failure of the ring-signature verification (digest mismatch,
\* challenge mismatch, the T1/T2, A/B and public-key checks, the
\* inner-product check) is reported as the one outcome InvalidProof.
C20_FailureIsInvalidProof ==
    (LinDone /\ ring_vf.result # "Ok(true)") => ring_vf.result = "InvalidProof"

---------------------------------------------------------------------------
(* The ring-size precondition. *)

\* n is a power of two
PowerOfTwo(n) == \E k \in 0 .. n : n = 2 ^ k

\* C21: for a ring size that is not a power of two, setup followed by prove
\* yields no signature and the caller receives InvalidParameters.
C21_RingSizeEnforced ==
    (pc \in {"lin_proved", "lin_failed"} /\ ~PowerOfTwo(ring_par.num_pub_inputs))
    => (ring_sig = NoRing /\ ring_pv.result = "InvalidParameters")

---------------------------------------------------------------------------
(* The inner-product argument of size 1. *)

\* the statement a proof (a, b) of size 1 is accepted for
SizeOneStatement ==
    LET params == ipa_in.params IN
    PAdd(PAdd(PMul(params.vec_G[1], FMul(proof.a, params.factors_G[1])),
              PMul(params.vec_H[1], FMul(proof.b, params.factors_H[1]))),
         PMul(params.u, FMul(proof.a, proof.b)))

\* C22: with n = 1 prove performs no round and returns empty vec_L, vec_R and
\* challenges with (a, b) = (a[0], b[0]); verify(1, P, params, proof) accepts
\* exactly when P = G_0 (a f_G[0]) + H_0 (b f_H[0]) + u (a b).
C22_SizeOne ==
    (ipa_in.n = 1 /\ WellFormedInputs)
    => /\ (pc = "ipa_proved")
          => /\ ipa_pv.rounds = 0
             /\ oracle = <<>>
             /\ proof = [vec_L |-> <<>>, vec_R |-> <<>>, challenges |-> <<>>,
                         a |-> ipa_in.vec_a[1], b |-> ipa_in.vec_b[1]]
       /\ (pc = "ipa_verified" /\ tamper.kind \in {"none", "a", "b"})
          => (ipa_vf.result = "Ok" <=> ipa_in.target_P = SizeOneStatement)

\* a proof of size 1 with a changed scalar was refused
C22_Witness ==
    /\ ipa_in.n = 1
    /\ pc = "ipa_verified"
    /\ tamper.kind = "b"
    /\ proof.vec_L = <<>>
    /\ ipa_in.target_P # SizeOneStatement
    /\ ipa_vf.result = "InvalidProof"

---------------------------------------------------------------------------
(* The verifier's box expansion against the prover's folding. *)

\* MSM(G, s o f_G) and MSM(H, reverse(s) o f_H) for the boxes s of the
\* prover's challenges
BoxedG ==
    LET params == ipa_in.params
        s == VecBox(Len(params.vec_G), ipa_pv.challenges)
    IN Msm(params.vec_G, hadamard_product(s, params.factors_G), ipa_in.d)

BoxedH ==
    LET params == ipa_in.params
        s == VecBox(Len(params.vec_H), ipa_pv.challenges)
    IN Msm(params.vec_H, hadamard_product(Reverse(s), params.factors_H), ipa_in.d)

\* the prover has folded G and H down to one generator each
FullyFolded == pc = "ipa_loop" /\ ipa_pv.n = 1

\* C23: for every power-of-two n and every sequence of log2(n) nonzero
\* challenges, the generator the prover's folding rounds end with equals
\* MSM(G, s o f_G), and the folded H equals MSM(H, reverse(s) o f_H).
C23_BoxExpansion ==
    FullyFolded => (ipa_pv.vec_G[1] = BoxedG /\ ipa_pv.vec_H[1] = BoxedH)

\* C23, amended: the same for n >= 2, where at least one round has folded
\* the generators (for n = 1 the prover keeps G_0 and H_0 without weights).
C23_BoxExpansionAfterRound ==
    (FullyFolded /\ ipa_pv.rounds >= 1)
    => (ipa_pv.vec_G[1] = BoxedG /\ ipa_pv.vec_H[1] = BoxedH)

\* two rounds with different challenges and a weight other than 1
C23_Witness ==
    /\ FullyFolded
    /\ ipa_pv.rounds = 2
    /\ ipa_pv.challenges[1] # ipa_pv.challenges[2]
    /\ ipa_in.params.factors_G[2] = 2
    /\ ipa_pv.vec_G[1] = BoxedG
    /\ ipa_pv.vec_H[1] = BoxedH

---------------------------------------------------------------------------
(* generate_powers. *)

\* C24: generate_powers(y, n) is the sequence (y^1, .., y^n) of length n: its
\* first element is y and not y^0, its last is y^n, and it is empty for n = 0.
C24_PowersStartAtY ==
    (pc = "pow_returned")
    => /\ Len(pw.result) = pw.n
       /\ \A i \in 1 .. pw.n : pw.result[i] = (pw.y ^ i) % Q
       /\ pw.n >= 1 => (pw.result[1] = pw.y /\ pw.result[pw.n] = (pw.y ^ pw.n) % Q)
       /\ pw.n = 0 => pw.result = <<>>

\* the call of test_generate_powers: y = 2, n = 4 gives 2, 4, 8, 16
C24_Witness ==
    /\ pc = "pow_returned"
    /\ pw.y = 2 /\ pw.n = 4
    /\ pw.result = <<2, 4, 8 % Q, 16 % Q>>

---------------------------------------------------------------------------
(* The transcripts of prove and verify. *)

\* s is the front of t
IsPrefix(s, t) == Len(s) <= Len(t) /\ SubSeq(t, 1, Len(s)) = s

\* C25: on an honest signature verify performs the transcript operations of
\* prove, step for step with the same labels and data, and the challenges
\* y, z, x it derives are those stored in the signature.
C25_SameTranscript ==
    (tamper.kind = "none" /\ pc \in {"lin_vdigest", "lin_checks", "lin_verified"})
    => /\ IsPrefix(ring_vf.transcript, ring_pv.transcript)
       /\ ring_vf.y = ring_sig.challenges[1]
       /\ ring_vf.z = ring_sig.challenges[2]
       /\ pc # "lin_vdigest"
          => /\ ring_vf.transcript = ring_pv.transcript
             /\ ring_vf.x = ring_sig.challenges[3]

\* verify has replayed the eight operations of prove on a ring of two keys
C25_Witness ==
    /\ pc = "lin_checks"
    /\ tamper.kind = "none"
    /\ ring_par.num_pub_inputs = 2
    /\ Len(ring_vf.transcript) = 8
    /\ ring_vf.transcript = ring_pv.transcript
    /\ <<ring_vf.y, ring_vf.z, ring_vf.x>> = ring_sig.challenges

\* the same for the compressed signature
CmpSameTranscript ==
    (tamper.kind = "none" /\ pc \in {"ipa_verify", "ipa_vround", "ipa_verified", "cmp_verified"}
     /\ ring_vf # NoRing /\ ring_vf.x # 0)
    => /\ ring_vf.transcript = ring_pv.transcript
       /\ <<ring_vf.y, ring_vf.z, ring_vf.x>> = SubSeq(ring_sig.challenges, 1, 3)

---------------------------------------------------------------------------
(* The order of the verifier's steps. *)

\* C26: the verifier derives y and z after absorbing A, B, absorbs E, T1, T2
\* and the digest after that, derives x last and decides after x; no
\* challenge value enters a computation before it is derived from the
\* transcript.  Stated for the compressed signature: while x is not derived,
\* the point RHS, which is computed from x, is not computed.
C26_ChallengeDerivedBeforeUse ==
    (pc \in {"cmp_verify", "cmp_vdigest"}) => ring_vf.RHS = <<>>

\* the same for the linear-size signature: while x is not derived, no check
\* has been evaluated and nothing is decided
LinChallengeDerivedBeforeUse ==
    (pc \in {"lin_verify", "lin_vdigest"})
    => (ring_vf.x = 0 /\ ring_vf.failed = 0 /\ ring_vf.result = "none")

---------------------------------------------------------------------------
(* The round invariant of the inner-product argument. *)

\* MSM(G, wa) + MSM(H, wb) + u <a, b>
Statement(G, H, wa, wb, a, b) ==
    PAdd(PAdd(Msm(G, wa, ipa_in.d), Msm(H, wb, ipa_in.d)),
         PMul(ipa_in.params.u, inner_product(a, b)))

\* the statement of the prover's current vectors; the weights count while no
\* round has folded them into the generators
StatementOf(st) ==
    IF st.rounds = 0
    THEN Statement(st.vec_G, st.vec_H,
                   hadamard_product(st.vec_a, ipa_in.params.factors_G),
                   hadamard_product(st.vec_b, ipa_in.params.factors_H),
                   st.vec_a, st.vec_b)
    ELSE Statement(st.vec_G, st.vec_H, st.vec_a, st.vec_b, st.vec_a, st.vec_b)

\* what a round with L, R and the challenge x adds: x^2 L + x^-2 R
RoundTerm(L, R, x) ==
    PAdd(PMul(L, FMul(x, x)), PMul(R, FMul(FInv(x), FInv(x))))

\* a step of prove that is a folding round
IsRound == ipa_pv'.rounds = ipa_pv.rounds + 1

\* the round's equation, with L, R, x the last ones recorded
RoundHolds ==
    LET k == Len(ipa_pv'.challenges)
        x == ipa_pv'.challenges[k]
        h == ipa_pv.n \div 2
        a_L == SubSeq(ipa_pv.vec_a, 1, h)
        a_R == SubSeq(ipa_pv.vec_a, h + 1, 2 * h)
        b_L == SubSeq(ipa_pv.vec_b, 1, h)
        b_R == SubSeq(ipa_pv.vec_b, h + 1, 2 * h)
    IN /\ x # 0
       /\ ipa_pv'.vec_a = [i \in 1 .. h |-> (x * a_L[i] + FInv(x) * a_R[i]) % Q]
       /\ ipa_pv'.vec_b = [i \in 1 .. h |-> (FInv(x) * b_L[i] + x * b_R[i]) % Q]
       /\ StatementOf(ipa_pv') =
            PAdd(StatementOf(ipa_pv), RoundTerm(ipa_pv'.vec_L[k], ipa_pv'.vec_R[k], x))

\* C27: in every round of prove, with challenge x # 0, the folded statement
\* MSM(G', a') + MSM(H', b') + u <a', b'> equals x^2 L + P_prev + x^-2 R,
\* where P_prev carries the weights f_G, f_H in the first round only and
\* a' = x a_L + x^-1 a_R, b' = x^-1 b_L + x b_R.
C27_RoundInvariant == [][IsRound => RoundHolds]_vars

\* what the rounds so far have added to the statement of the inputs
RECURSIVE RoundTerms(_, _)
RoundTerms(st, k) ==
    IF k = 0 THEN PZero(ipa_in.d)
    ELSE PAdd(RoundTerms(st, k - 1),
              RoundTerm(st.vec_L[k], st.vec_R[k], st.challenges[k]))

\* two rounds were taken with different challenges, and the statement folded
\* twice is the statement of the inputs plus the terms of both rounds
C27_Witness ==
    /\ pc = "ipa_loop"
    /\ ipa_pv.rounds = 2
    /\ ipa_pv.challenges[1] # ipa_pv.challenges[2]
    /\ ipa_pv.vec_L[2] # PZero(ipa_in.d)
    /\ StatementOf(ipa_pv) =
         PAdd(StatementOf([ipa_pv EXCEPT !.rounds = 0,
                                         !.vec_a = ipa_in.vec_a, !.vec_b = ipa_in.vec_b,
                                         !.vec_G = ipa_in.params.vec_G,
                                         !.vec_H = ipa_in.params.vec_H]),
              RoundTerms(ipa_pv, 2))

---------------------------------------------------------------------------
(* The rounds of prove. *)

\* prove is between its parameter checks and its return
InRounds == pc \in {"ipa_base", "ipa_loop", "ipa_proved"}

\* the four vectors have the current length, which is the input length
\* halved once per round; L, R and the challenge are recorded once per round;
\* at the return the length is 1 and the proof holds log2(n) of each
RoundLengths ==
    LET n0 == Len(ipa_in.params.vec_G) IN
    /\ Len(ipa_pv.vec_a) = ipa_pv.n /\ Len(ipa_pv.vec_b) = ipa_pv.n
    /\ Len(ipa_pv.vec_G) = ipa_pv.n /\ Len(ipa_pv.vec_H) = ipa_pv.n
    /\ ipa_pv.n >= 1
    /\ ipa_pv.n * (2 ^ ipa_pv.rounds) = n0
    /\ Len(ipa_pv.vec_L) = ipa_pv.rounds
    /\ Len(ipa_pv.vec_R) = ipa_pv.rounds
    /\ Len(ipa_pv.challenges) = ipa_pv.rounds
    /\ pc = "ipa_proved"
       => /\ ipa_pv.n = 1
          /\ 2 ^ Len(proof.vec_L) = n0
          /\ Len(proof.vec_R) = Len(proof.vec_L)
          /\ Len(proof.challenges) = Len(proof.vec_L)

\* C28: for every power-of-two n prove terminates after exactly log2(n)
\* rounds: in every round the four vectors have the current length, each
\* round halves it, the loop ends at length 1, and the proof holds log2(n)
\* points in vec_L, in vec_R and log2(n) challenges.
C28_RoundsTerminate ==
    /\ [](InRounds => RoundLengths)
    /\ (pc = "ipa_base") ~> (pc = "ipa_proved")

\* prove returned for n = 4 after two rounds
C28_Witness ==
    /\ pc = "ipa_proved"
    /\ Len(ipa_in.params.vec_G) = 4
    /\ ipa_pv.rounds = 2
    /\ Len(proof.vec_L) = 2 /\ Len(proof.vec_R) = 2 /\ Len(proof.challenges) = 2
    /\ Len(ipa_pv.vec_a) = 1 /\ Len(ipa_pv.vec_G) = 1

---------------------------------------------------------------------------
(* The polynomial identity behind the T1, T2 check. *)

\* C29: for the indicator b of the witness, b1 = 1^N - b, the masks r0, r1
\* and the challenges y, z, x of a signature, hat_t = <zeta, eta> =
\* delta(y, z) + t1 x + t2 x^2 with delta(y, z) = (z + z^2) <1^N, y^N>, the
\* verifier's T1, T2 check holds on the signature, and the prover's assertion
\* b0 + b1 = 1^N, b0 o b1 = 0^N does not fail on a witness of setup.
C29_PolynomialIdentity ==
    /\ pc # "lin_failed"
    /\ (pc = "lin_proved")
       => LET n == ring_par.num_pub_inputs
              b == WitB(ring_par, ring_wit.wit)
              y == ring_sig.challenges[1]
              z == ring_sig.challenges[2]
              x == ring_sig.challenges[3]
              r0 == ring_pv.c.r0
              r1 == ring_pv.c.r1
              o == ring_sig.openings
              Zeta(i) == (b[i] + z + r0 * x) * (y ^ i)
              Eta(i) == (1 - b[i]) + z + r1 * x
              prod == SumSeq([i \in 1 .. n |-> Zeta(i) * Eta(i)])
              t1 == SumSeq([i \in 1 .. n |->
                               (y ^ i) * (r0 * (z + 1 - b[i]) + (b[i] + z) * r1)])
              t2 == SumSeq([i \in 1 .. n |-> (y ^ i) * r0 * r1])
              delta == (z + z * z) * SumSeq([i \in 1 .. n |-> y ^ i])
          IN /\ \A i \in 1 .. n : b[i] \in {0, 1}
             /\ \A i \in 1 .. n : o.zeta[i] = Zeta(i) % Q /\ o.eta[i] = Eta(i) % Q
             /\ o.hat_t = prod
             /\ o.hat_t = (delta + t1 * x + t2 * x * x) % Q
             /\ LinCheck1(ring_par, ring_sig, y, z, x)

\* a signature on a ring of three keys with y # 1 and a mask that counts
C29_Witness ==
    /\ pc = "lin_proved"
    /\ ring_par.num_pub_inputs = 3
    /\ ring_sig.challenges[1] = 2
    /\ ring_sig.challenges[3] = 3
    /\ ring_pv.c.r0 # 0
    /\ ring_sig.openings.hat_t =
         inner_product(ring_sig.openings.zeta, ring_sig.openings.eta)

---------------------------------------------------------------------------
(* What the round challenges of the inner-product argument depend on. *)

\* the transcript after j rounds, written from the length n, the points
\* L_1 .. L_j, R_1 .. R_j and the challenges x_1 .. x_j alone
RECURSIVE RoundsTranscript(_, _, _, _, _)
RoundsTranscript(n, Ls, Rs, xs, j) ==
    IF j = 0
    THEN << [label |-> "RingSignature", data |-> <<>>],
            [label |-> "IPAsize", data |-> <<n % Q>>] >>
    ELSE RoundsTranscript(n, Ls, Rs, xs, j - 1)
         \o << [label |-> "commitments L, R", data |-> Ls[j] \o Rs[j]],
               [label |-> "challenge", data |-> <<xs[j]>>] >>

\* x_j is the oracle's answer to the query made of n and L_1, R_1 .. L_j, R_j
\* (x_1 .. x_(j-1) being such answers in turn)
ChallengeFromPrefix(n, Ls, Rs, xs, j) ==
    LET q == RoundsTranscript(n, Ls, Rs, xs, j - 1)
             \o << [label |-> "commitments L, R", data |-> Ls[j] \o Rs[j]],
                   [label |-> "challenge", data |-> <<>>] >>
    IN q \in DOMAIN oracle /\ oracle[q] = xs[j]

\* C30: each round challenge x_j is a function of the length n and the points
\* L_0, R_0, .., L_j, R_j absorbed so far and of nothing else: prove and
\* verify, whatever the generators, weights, vectors a, b, final scalars and
\* target P, get x_j as the oracle's answer to the query made of these alone.
C30_ChallengeFromPrefix ==
    /\ \A j \in 1 .. Len(ipa_pv.challenges) :
          ChallengeFromPrefix(ipa_pv.n * (2 ^ ipa_pv.rounds),
                              ipa_pv.vec_L, ipa_pv.vec_R, ipa_pv.challenges, j)
    /\ \A j \in 1 .. Len(ipa_vf.challenges) :
          ChallengeFromPrefix(ipa_in.n, proof.vec_L, proof.vec_R, ipa_vf.challenges, j)

\* verify ran on a proof with another scalar b and a target P that is not the
\* prover's statement, and derived the prover's two challenges
C30_Witness ==
    /\ pc = "ipa_verified"
    /\ tamper.kind = "b"
    /\ Len(ipa_vf.challenges) = 2
    /\ ipa_vf.challenges = ipa_pv.challenges
    /\ proof.b # ipa_pv.vec_b[1]
    /\ ipa_vf.result = "InvalidProof"

=============================================================================
